---- MODULE Spec2Model ----
(***************************************************************************)
(* Terra Vista: the elevation ingestion pipeline.                          *)
(*                                                                         *)
(* A decode call is modelled as one step from an input (a file: its name   *)
(* and its content) to a result (an error, or a grid).  Every decoder is   *)
(* an operator computed the way its TypeScript source computes it; the     *)
(* actions apply the decoders to inputs drawn from bounded sets.           *)
(*                                                                         *)
(* Numbers.  Coordinates and elevations are integers (fixed point); a      *)
(* division whose result the source stores in a Float32Array rounds to     *)
(* the unit, toward minus infinity, where the source rounds to the nearest *)
(* float.  Ratios that are only reported (pixel sizes) are fractions       *)
(* <<n, d>>.  NaN and the infinities are modelled where the source can     *)
(* produce them.                                                           *)
(*                                                                         *)
(* Text.  A string is a sequence of one-character strings.                 *)
(***************************************************************************)
EXTENDS Integers, Sequences, FiniteSets, TLC

VARIABLES input, result, calls

vars == <<input, result, calls>>

(***************************************************************************)
(* Generic helpers                                                         *)
(***************************************************************************)
Max(a, b) == IF a >= b THEN a ELSE b

Min(a, b) == IF a <= b THEN a ELSE b

Abs(a) == IF a < 0 THEN -a ELSE a

\* floor(a / b) for b > 0 (\div rounds toward minus infinity in TLA+)
FloorDiv(a, b) == a \div b

\* ceil(a / b) for b > 0
CeilDiv(a, b) == -((-a) \div b)

\* the least and the greatest member of a non-empty set of integers
Least(S) == CHOOSE a \in S : \A b \in S : a <= b

Greatest(S) == CHOOSE a \in S : \A b \in S : b <= a

\* Math.ceil(Math.sqrt(n)) for an integer n >= 0
CeilSqrt(n) == CHOOSE s \in 0..n : s * s >= n /\ (s = 0 \/ (s - 1) * (s - 1) < n)

\* the result before any decode has run
NoResult == [status |-> "none"]

\* null, where a field holds an object or null
Null == [null |-> TRUE]

Error(fn, msg) == [status |-> "error", by |-> fn, message |-> msg]

(***************************************************************************)
(* Characters and strings                                                  *)
(***************************************************************************)
UpperChars == <<"A","B","C","D","E","F","G","H","I","J","K","L","M",
                "N","O","P","Q","R","S","T","U","V","W","X","Y","Z">>

LowerChars == <<"a","b","c","d","e","f","g","h","i","j","k","l","m",
                "n","o","p","q","r","s","t","u","v","w","x","y","z">>

LowerChar(c) ==
    IF \E i \in 1..Len(UpperChars) : UpperChars[i] = c
    THEN LowerChars[CHOOSE i \in 1..Len(UpperChars) : UpperChars[i] = c]
    ELSE c

UpperChar(c) ==
    IF \E i \in 1..Len(LowerChars) : LowerChars[i] = c
    THEN UpperChars[CHOOSE i \in 1..Len(LowerChars) : LowerChars[i] = c]
    ELSE c

\* String.prototype.toLowerCase
ToLowerCase(s) == [i \in 1..Len(s) |-> LowerChar(s[i])]

ToUpperCase(s) == [i \in 1..Len(s) |-> UpperChar(s[i])]

\* String.prototype.endsWith
EndsWith(s, suffix) ==
    /\ Len(suffix) <= Len(s)
    /\ \A i \in 1..Len(suffix) : s[Len(s) - Len(suffix) + i] = suffix[i]

\* String.prototype.startsWith
StartsWith(s, prefix) ==
    /\ Len(prefix) <= Len(s)
    /\ \A i \in 1..Len(prefix) : s[i] = prefix[i]

\* file.name.split(".").pop(): the text after the last dot (the whole name
\* when it has no dot)
LastDotSegment(s) ==
    LET dots == {i \in 1..Len(s) : s[i] = "."}
    IN  SubSeq(s, (IF dots = {} THEN 0 ELSE Greatest(dots)) + 1, Len(s))

WhitespaceChars == {" ", "\t", "\n", "\r"}

Digits == <<"0","1","2","3","4","5","6","7","8","9">>

IsDigit(c) == \E i \in 1..Len(Digits) : Digits[i] = c

DigitValue(c) == (CHOOSE i \in 1..Len(Digits) : Digits[i] = c) - 1

\* String.prototype.trim
Trim(s) ==
    LET solid == {i \in 1..Len(s) : s[i] \notin WhitespaceChars}
    IN  IF solid = {} THEN <<>> ELSE SubSeq(s, Least(solid), Greatest(solid))

(***************************************************************************)
(* Format registry (formats.ts)                                            *)
(***************************************************************************)
FORMATS == <<
  [id |-> "geotiff",   name |-> "GeoTIFF", supported |-> TRUE,
   extensions |-> << <<".","t","i","f">>, <<".","t","i","f","f">> >>,
   description |-> "Industry standard georeferenced raster"],
  [id |-> "cog",       name |-> "Cloud Optimized GeoTIFF", supported |-> TRUE,
   extensions |-> << <<".","c","o","g">> >>,
   description |-> "Streamable GeoTIFF for cloud hosting"],
  [id |-> "erdas",     name |-> "ERDAS Imagine", supported |-> TRUE,
   extensions |-> << <<".","i","m","g">> >>,
   description |-> "Remote sensing raster format"],
  [id |-> "xyz",       name |-> "ASCII XYZ", supported |-> TRUE,
   extensions |-> << <<".","x","y","z">> >>,
   description |-> "Simple text elevation grid (X Y Z)"],
  [id |-> "usgsdem",   name |-> "USGS DEM", supported |-> TRUE,
   extensions |-> << <<".","d","e","m">> >>,
   description |-> "USGS digital elevation model"],
  [id |-> "dted",      name |-> "DTED", supported |-> TRUE,
   extensions |-> << <<".","d","t","0">>, <<".","d","t","1">>, <<".","d","t","2">> >>,
   description |-> "Digital Terrain Elevation Data"],
  [id |-> "netcdf",    name |-> "NetCDF", supported |-> TRUE,
   extensions |-> << <<".","n","c">> >>,
   description |-> "Scientific multidimensional arrays"],
  [id |-> "worldfile", name |-> "Image + World File", supported |-> TRUE,
   extensions |-> << <<".","j","p","g">>, <<".","j","p","e","g">>, <<".","p","n","g">>,
                     <<".","b","m","p">>, <<".","g","i","f">> >>,
   description |-> "Standard image with georeferencing sidecar"],
  [id |-> "las",       name |-> "LAS/LAZ", supported |-> TRUE,
   extensions |-> << <<".","l","a","s">>, <<".","l","a","z">> >>,
   description |-> "LiDAR point cloud (gridded to DEM)"],
  [id |-> "jp2",       name |-> "JPEG 2000", supported |-> FALSE,
   extensions |-> << <<".","j","p","2">>, <<".","j","p","x">> >>,
   description |-> "Lossless compression with geospatial metadata"],
  [id |-> "gpkg",      name |-> "GeoPackage", supported |-> FALSE,
   extensions |-> << <<".","g","p","k","g">> >>,
   description |-> "SQLite-based vector/raster container"],
  [id |-> "ecw",       name |-> "ECW", supported |-> FALSE,
   extensions |-> << <<".","e","c","w">> >>,
   description |-> "Enhanced Compression Wavelet (proprietary)"],
  [id |-> "mrsid",     name |-> "MrSID", supported |-> FALSE,
   extensions |-> << <<".","s","i","d">> >>,
   description |-> "LizardTech multi-resolution (proprietary)"],
  [id |-> "hdf",       name |-> "HDF", supported |-> FALSE,
   extensions |-> << <<".","h","d","f">>, <<".","h","d","f","5">>,
                     <<".","h","e","5">>, <<".","h","5">> >>,
   description |-> "Hierarchical Data Format (NASA)"] >>

UnknownFormat ==
    [id |-> "unknown", name |-> "Unknown", supported |-> FALSE,
     extensions |-> <<>>, description |-> "Unrecognized format"]

\* FORMATS.flatMap((f) => f.extensions), as a set
ALL_EXTENSIONS ==
    {FORMATS[i].extensions[j] : <<i, j>> \in
        {p \in (1..Len(FORMATS)) \X (1..5) : p[2] <= Len(FORMATS[p[1]].extensions)}}

\* does format number i own an extension the lower-cased name ends with
FormatMatches(i, lower) ==
    \E j \in 1..Len(FORMATS[i].extensions) : EndsWith(lower, FORMATS[i].extensions[j])

\* detectFormat without line 49: the name is compared as it is written
CaseSensitiveDetect(fileName) ==
    LET hits == {i \in 1..Len(FORMATS) : FormatMatches(i, fileName)}
    IN  IF hits = {} THEN UnknownFormat ELSE FORMATS[Least(hits)]

\* detectFormat: the first format, in table order, one of whose extensions
\* the lower-cased file name ends with
detectFormat(fileName) ==
    LET hits == {i \in 1..Len(FORMATS) : FormatMatches(i, ToLowerCase(fileName))}
    IN  IF hits = {} THEN UnknownFormat ELSE FORMATS[Least(hits)]

(***************************************************************************)
(* JavaScript number parsing                                               *)
(***************************************************************************)
\* NaN, where a number is otherwise an integer: an integer that no
\* computation of the model produces
NaN == -(10 ^ 9)

IsNaN(v) == v = NaN

\* NaN, where a number is a fraction <<numerator, denominator>>
NaNFrac == <<0, 0>>

\* s without its leading white space
TrimStart(s) ==
    LET solid == {i \in 1..Len(s) : s[i] \notin WhitespaceChars}
    IN  IF solid = {} THEN <<>> ELSE SubSeq(s, Least(solid), Len(s))

\* a || dflt on a number: NaN and 0 are falsy
NumberOr(v, dflt) == IF IsNaN(v) \/ v = 0 THEN dflt ELSE v

\* does t begin with a minus sign?
Negative(t) == t # <<>> /\ Head(t) = "-"

\* t without its sign
Unsigned(t) == IF t # <<>> /\ Head(t) \in {"-", "+"} THEN Tail(t) ELSE t

HexChars == <<"0","1","2","3","4","5","6","7","8","9","a","b","c","d","e","f">>

\* the value of character c as a digit of the radix, or -1
RadixDigit(c, radix) ==
    LET hits == {i \in 1..radix : HexChars[i] = LowerChar(c)}
    IN  IF hits = {} THEN -1 ELSE (CHOOSE i \in hits : TRUE) - 1

\* the length of the longest prefix of s made of digits of the radix
RECURSIVE DigitRun(_, _)
DigitRun(s, radix) ==
    IF s = <<>> \/ RadixDigit(Head(s), radix) < 0 THEN 0
    ELSE 1 + DigitRun(Tail(s), radix)

\* the number a sequence of digits of the radix writes
RECURSIVE DigitsValue(_, _)
DigitsValue(s, radix) ==
    IF s = <<>> THEN 0
    ELSE DigitsValue(SubSeq(s, 1, Len(s) - 1), radix) * radix
         + RadixDigit(s[Len(s)], radix)

\* the integer the digits at the head of body write in the radix, negated
\* when neg; NaN when body begins with no digit
RadixInteger(body, radix, neg) ==
    IF DigitRun(body, radix) = 0 THEN NaN
    ELSE (IF neg THEN -1 ELSE 1)
            * DigitsValue(SubSeq(body, 1, DigitRun(body, radix)), radix)

\* the integer at the head of u, which has lost its sign: hexadecimal after
\* a 0x prefix, decimal otherwise
UnsignedInteger(u, neg) ==
    IF Len(u) >= 2 /\ u[1] = "0" /\ u[2] \in {"x", "X"}
    THEN RadixInteger(SubSeq(u, 3, Len(u)), 16, neg)
    ELSE RadixInteger(u, 10, neg)

\* parseInt(s) with no radix argument: leading white space, a sign, an
\* optional 0x prefix, then the longest run of digits; NaN when there is none
ParseInt(s) == UnsignedInteger(Unsigned(TrimStart(s)), Negative(TrimStart(s)))

\* parseInt(s) || dflt
ParseIntOr(s, dflt) == NumberOr(ParseInt(s), dflt)

(***************************************************************************)
(* DTED decoder (loadDted.ts)                                              *)
(*                                                                         *)
(* A DTED content is the buffer seen through the accessors of the source:  *)
(*   length       bytes.length                                             *)
(*   sig          bytes 0..2 as characters                                 *)
(*   lonInterval  bytes 20..23, latInterval  bytes 24..27 as characters    *)
(*   lonLines     bytes 47..50, latPoints    bytes 51..54 as characters    *)
(*   pattern      selects the bytes of the data region (see ByteAt)        *)
(***************************************************************************)
dsiStart == 80

DsiSize == 648

AccSize == 2700

accStart == dsiStart + DsiSize

dataStart == accStart + AccSize

\* the smallest accepted buffer: 3428 + 12
DtedMinLength == dataStart + 12

DtedNoData == -32767

\* 16-bit words (high byte, low byte) the data region is filled with
SampleWords == << <<0, 100>>, <<128, 100>>, <<255, 255>>, <<0, 0>>, <<127, 255>>,
                  <<128, 0>>, <<1, 44>> >>

\* bytes[off] for an offset of the data region: the region is the words of
\* SampleWords in rotation, starting at the word the pattern selects
ByteAt(c, off) ==
    LET word == (off - dataStart) \div 2
        w    == SampleWords[((word + c.pattern) % Len(SampleWords)) + 1]
    IN  w[((off - dataStart) % 2) + 1]

\* lines 52-53: the sample a high and a low byte encode (BadSample: the sign
\* bit left in the magnitude)
BadSample(highByte, lowByte) ==
    LET value == highByte * 256 + lowByte
    IN  IF highByte >= 128 THEN -value ELSE value

DtedSample(highByte, lowByte) ==
    LET value == (highByte % 128) * 256 + lowByte
    IN  IF (highByte \div 128) % 2 = 1 THEN -value ELSE value

\* lines 48-57 without the flip of line 55: the sample of row r written to
\* row r of the grid
RECURSIVE UnflippedWriteColumn(_, _, _, _, _, _)
UnflippedWriteColumn(c, elevations, col, row, width, numLatPoints) ==
    IF row >= numLatPoints THEN elevations
    ELSE LET recordStart == dataStart + col * (8 + numLatPoints * 2 + 4)
             byteOffset  == recordStart + 8 + row * 2
             value       == DtedSample(ByteAt(c, byteOffset), ByteAt(c, byteOffset + 1))
         IN  UnflippedWriteColumn(c, [elevations EXCEPT ![row * width + col + 1] = value],
                                  col, row + 1, width, numLatPoints)

\* lines 48-57: the rows of one column record written into the grid
RECURSIVE DtedWriteColumn(_, _, _, _, _, _)
DtedWriteColumn(c, elevations, col, row, width, numLatPoints) ==
    IF row >= numLatPoints THEN elevations
    ELSE LET recordSize  == 8 + numLatPoints * 2 + 4
             recordStart == dataStart + col * recordSize
             byteOffset  == recordStart + 8 + row * 2
             value       == DtedSample(ByteAt(c, byteOffset), ByteAt(c, byteOffset + 1))
             outRow      == numLatPoints - 1 - row
         IN  DtedWriteColumn(c, [elevations EXCEPT ![outRow * width + col + 1] = value],
                             col, row + 1, width, numLatPoints)

\* line 46: the loop over the column records stops at the first record the
\* buffer does not hold in full up to its last sample (the four checksum
\* bytes are not required)
RecordMissing(c, col, numLatPoints) ==
    LET recordSize  == 8 + numLatPoints * 2 + 4
        recordStart == dataStart + col * recordSize
    IN  recordStart + 8 + numLatPoints * 2 > c.length

\* lines 44-58: <<elevations, number of column records decoded>>
RECURSIVE DtedReadColumns(_, _, _, _, _)
DtedReadColumns(c, elevations, col, numLonLines, numLatPoints) ==
    IF col >= numLonLines THEN <<elevations, col>>
    ELSE IF RecordMissing(c, col, numLatPoints) THEN <<elevations, col>>
    ELSE DtedReadColumns(c,
             DtedWriteColumn(c, elevations, col, 0, numLonLines, numLatPoints),
             col + 1, numLonLines, numLatPoints)

\* lines 20-21, 60-61: parseInt(field) / 10 / 3600 as a fraction, or NaN
DtedPixelSize(field) ==
    LET v == ParseInt(field) IN IF IsNaN(v) THEN NaNFrac ELSE <<v, 36000>>

\* the signature test of line 13 (BadSignatureOk: only the first byte is
\* compared)
BadSignatureOk(c) == c.sig[1] = "U"

DtedSignatureOk(c) == c.sig = <<"U", "H", "L">>

loadDtedFile(c) ==
    IF c.length < DtedMinLength
    THEN Error("loadDtedFile", "File too small to be a valid DTED file")
    ELSE IF ~DtedSignatureOk(c)
    THEN Error("loadDtedFile", "Invalid DTED: missing UHL header signature")
    ELSE LET numLonLines  == ParseInt(c.lonLines)
             numLatPoints == ParseInt(c.latPoints)
         IN  IF IsNaN(numLonLines) \/ IsNaN(numLatPoints)
             THEN Error("loadDtedFile", "Invalid DTED: could not parse grid dimensions")
             ELSE IF numLonLines <= 0 \/ numLatPoints <= 0
             THEN Error("loadDtedFile", "Invalid DTED: could not parse grid dimensions")
             ELSE LET width   == numLonLines
                      height  == numLatPoints
                      blank   == [i \in 1..(width * height) |-> DtedNoData]
                      decoded == DtedReadColumns(c, blank, 0, numLonLines, numLatPoints)
                  IN  [status |-> "grid", by |-> "loadDtedFile",
                       width |-> width, height |-> height,
                       elevations |-> decoded[1],
                       noDataValue |-> DtedNoData,
                       pixelSizeX |-> DtedPixelSize(c.lonInterval),
                       pixelSizeY |-> DtedPixelSize(c.latInterval),
                       crs |-> "EPSG:4326",
                       columnsDecoded |-> decoded[2]]

(***************************************************************************)
(* DTED: inputs and steps                                                  *)
(***************************************************************************)
\* the largest column and row counts a header of the model declares
MaxLonLines == 2

MaxLatPoints == 2

\* a count as the four ASCII digits of a header field
CountField(n) == <<"0", "0", Digits[((n \div 10) % 10) + 1], Digits[(n % 10) + 1]>>

\* header fields that are no plain count
OddFields == { <<" ", " ", " ", " ">>, <<"-", "0", "0", "1">>, <<" ", "2", " ", " ">>,
               <<"1", "x", "0", "0">> }

LonLinesFields == {CountField(n) : n \in 0..MaxLonLines} \cup OddFields

LatPointsFields == {CountField(n) : n \in 0..MaxLatPoints} \cup OddFields

IntervalFields == { <<"0", "0", "3", "0">>, <<" ", " ", " ", " ">>, <<"0", "0", "0", "0">> }

DtedSignatures == { <<"U", "H", "L">>, <<"U", "H", "X">>, <<"D", "S", "I">>, <<"u", "h", "l">> }

\* buffer lengths: too small, and every length from the smallest accepted
\* one to a little more than the largest declared grid needs
DtedLengths ==
    {2, DtedMinLength - 1}
    \cup {dataStart + n : n \in 12..(MaxLonLines * (12 + 2 * MaxLatPoints) + 1)}

\* the buffers vary in length, signature and counts with one data pattern;
\* in length, counts and data pattern with the right signature; and in the
\* interval fields with everything else plain
DtedContents ==
    [kind : {"dted"}, length : DtedLengths, sig : DtedSignatures,
     lonLines : LonLinesFields, latPoints : LatPointsFields,
     lonInterval : {<<"0", "0", "3", "0">>}, latInterval : {<<"0", "0", "3", "0">>},
     pattern : {0}]
    \cup
    [kind : {"dted"}, length : DtedLengths \ {2, DtedMinLength - 1},
     sig : {<<"U", "H", "L">>},
     lonLines : LonLinesFields, latPoints : LatPointsFields,
     lonInterval : {<<"0", "0", "3", "0">>}, latInterval : {<<"0", "0", "3", "0">>},
     pattern : 0..(Len(SampleWords) - 1)]
    \cup
    [kind : {"dted"}, length : {dataStart + 12}, sig : {<<"U", "H", "L">>},
     lonLines : {CountField(1)}, latPoints : {CountField(1)},
     lonInterval : IntervalFields, latInterval : IntervalFields,
     pattern : {0}]

DtedName == <<"n", "3", "4", ".", "d", "t", "1">>

DtedInputs == {[name |-> DtedName, content |-> c] : c \in DtedContents}

InitDted ==
    /\ input \in DtedInputs
    /\ result = NoResult
    /\ calls = <<>>

\* a direct call of loadDtedFile on the input
LoadDtedFile ==
    /\ result = NoResult
    /\ input.content.kind = "dted"
    /\ result' = loadDtedFile(input.content)
    /\ calls' = Append(calls, "loadDtedFile")
    /\ UNCHANGED input

NextDted == LoadDtedFile

SpecDted == InitDted /\ [][NextDted]_vars

(***************************************************************************)
(* DTED: one 16-bit sample                                                 *)
(***************************************************************************)
SampleInputs ==
    {[name |-> <<>>, content |-> [kind |-> "sample", highByte |-> h, lowByte |-> l]] :
        h \in 0..255, l \in 0..255}

InitSample ==
    /\ input \in SampleInputs
    /\ result = NoResult
    /\ calls = <<>>

\* lines 50-53 of loadDtedFile applied to one sample
DecodeSample ==
    /\ result = NoResult
    /\ input.content.kind = "sample"
    /\ result' = [status |-> "value",
                  value |-> DtedSample(input.content.highByte, input.content.lowByte)]
    /\ calls' = Append(calls, "DtedSample")
    /\ UNCHANGED input

NextSample == DecodeSample

SpecSample == InitSample /\ [][NextSample]_vars

(***************************************************************************)
(* Fractions <<n, d>> with d > 0, in lowest terms; NaNFrac is NaN          *)
(***************************************************************************)
RECURSIVE GCD(_, _)
GCD(a, b) == IF b = 0 THEN a ELSE GCD(b, a % b)

Frac(n, d) ==
    LET g == GCD(Abs(n), d) IN <<n \div g, d \div g>>

IsNaNFrac(f) == f[2] = 0

\* Math.round(a / b) for b > 0: halves round up
RoundDiv(a, b) == (2 * a + b) \div (2 * b)

(***************************************************************************)
(* LAS/LAZ decoder (loadLas.ts)                                            *)
(*                                                                         *)
(* A LAS content is the buffer seen through the reads of the source:       *)
(*   length              buffer.byteLength                                 *)
(*   sig                 bytes 0..3 as characters                          *)
(*   versionMajor/Minor  bytes 24, 25                                      *)
(*   offsetToPointData, numVLRs, pointDataRecordLength                     *)
(*   legacyPointCount    the uint32 at 107                                 *)
(*   pointCount64        the uint64 at 247                                 *)
(*   lazCount            what laszip.getCount() answers for the buffer     *)
(*   scale, offset       the three scale factors and the three offsets     *)
(*   vlrs                the variable length records, laid out one after   *)
(*                       the other from the offset the version selects     *)
(*   records             record i is the raw <<X, Y, Z>> read at           *)
(*                       offsetToPointData + i * pointDataRecordLength     *)
(***************************************************************************)
\* the cap on retained points (10,000,000 in the source, lines 90 and 150),
\* scaled down so that files above the cap can be enumerated
PointCap == 2

\* the floor and the ceiling of the grid resolution (64 and 512 in the
\* source, lines 284-285), scaled down so that the grids can be enumerated
MinGridRes == 3

MaxGridRes == 4

LazRecordId == 22204

LaszipUserId == "laszip encoded"

\* the bytes the header reads need: up to the float64 at 219, and for
\* version 1.4 the uint64 at 247
LasHeaderBytes(versionMinor) == IF versionMinor >= 4 THEN 255 ELSE 227

\* lines 63-65
VlrStart(versionMinor) ==
    IF versionMinor >= 4 THEN 375 ELSE IF versionMinor >= 3 THEN 235 ELSE 227

\* lines 67-79: the scan of the variable length records for a compression
\* marker, from record i at vlrOffset
RECURSIVE ScanVlrs(_, _, _)
ScanVlrs(c, i, vlrOffset) ==
    IF ~(i < c.numVLRs /\ vlrOffset < c.offsetToPointData) THEN FALSE
    ELSE IF vlrOffset + 54 > c.length THEN FALSE
    ELSE IF i >= Len(c.vlrs) THEN FALSE
    ELSE LET vlr == c.vlrs[i + 1]
         IN  \/ vlr.userId = LaszipUserId
             \/ vlr.recordId = LazRecordId
             \/ ScanVlrs(c, i + 1, vlrOffset + 54 + vlr.recordLength)

\* parseLasHeader: an error, or the header
parseLasHeader(c) ==
    IF c.length < 4 THEN Error("parseLasHeader", "RangeError")
    ELSE IF c.sig # <<"L", "A", "S", "F">>
    THEN Error("parseLasHeader", "Not a valid LAS/LAZ file (missing LASF signature)")
    ELSE IF c.length < 26 THEN Error("parseLasHeader", "RangeError")
    ELSE IF c.versionMajor # 1 \/ c.versionMinor > 4
    THEN Error("parseLasHeader", "Unsupported LAS version")
    ELSE IF c.length < LasHeaderBytes(c.versionMinor)
    THEN Error("parseLasHeader", "RangeError")
    ELSE [status |-> "header",
          versionMinor |-> c.versionMinor,
          pointDataRecordLength |-> c.pointDataRecordLength,
          numberOfPoints |-> IF c.versionMinor >= 4 THEN c.pointCount64
                            ELSE c.legacyPointCount,
          offsetToPointData |-> c.offsetToPointData,
          scale |-> c.scale, offset |-> c.offset,
          isLaz |-> ScanVlrs(c, 0, VlrStart(c.versionMinor))]

\* lines 107-109 and 170-172: raw * scale + offset on each axis
LasPoint(raw, header) ==
    [x |-> raw[1] * header.scale[1] + header.offset[1],
     y |-> raw[2] * header.scale[2] + header.offset[2],
     z |-> raw[3] * header.scale[3] + header.offset[3]]

\* lines 90-91 and 150-151: the stride that keeps the retained points under
\* the cap (FloorStride: the quotient rounded down, which overshoots the cap)
FloorStride(total) ==
    LET maxPoints == Min(total, PointCap)
    IN  IF total > maxPoints THEN total \div maxPoints ELSE 1

LasStride(total) ==
    LET maxPoints == Min(total, PointCap)
    IN  IF total > maxPoints THEN CeilDiv(total, maxPoints) ELSE 1

\* lines 99-111: the loop of extractPointsUncompressed from record i; kept
\* is the sequence of record indices retained so far
RECURSIVE UncompressedLoop(_, _, _, _, _, _)
UncompressedLoop(c, header, i, stride, count, kept) ==
    IF ~(i < header.numberOfPoints /\ Len(kept) < count) THEN kept
    ELSE LET off == header.offsetToPointData + i * header.pointDataRecordLength
         IN  IF off + 12 > c.length THEN kept
             ELSE UncompressedLoop(c, header, i + stride, stride, count, Append(kept, i))

\* extractPointsUncompressed: the indices of the records retained
extractPointsUncompressed(c, header) ==
    LET stride == LasStride(header.numberOfPoints)
        count  == CeilDiv(header.numberOfPoints, stride)
    IN  UncompressedLoop(c, header, 0, stride, count, <<>>)

\* lines 162-175: the loop of extractPointsLaz from point i of the
\* pointCount points the decompressor delivers
RECURSIVE LazLoop(_, _, _, _, _)
LazLoop(i, pointCount, skipStride, outputCount, kept) ==
    IF ~(i < pointCount) THEN kept
    ELSE IF i % skipStride = 0 /\ Len(kept) < outputCount
    THEN LazLoop(i + 1, pointCount, skipStride, outputCount, Append(kept, i))
    ELSE LazLoop(i + 1, pointCount, skipStride, outputCount, kept)

\* extractPointsLaz: the indices of the points retained; laszip.getCount()
\* is the number of points the decompressor delivers
extractPointsLaz(c, header) ==
    LET pointCount  == c.lazCount
        skipStride  == LasStride(pointCount)
        outputCount == CeilDiv(pointCount, skipStride)
    IN  LazLoop(0, pointCount, skipStride, outputCount, <<>>)

(***************************************************************************)
(* Point-cloud grid resampler (loadLas.ts, pointsToGrid)                   *)
(***************************************************************************)
\* Infinity and -Infinity, where a number is otherwise an integer
Infinity == 10 ^ 9

MinusInfinity == -(10 ^ 9) - 2

MaxFillPasses == 3

SeqMin(s) == CHOOSE v \in {s[i] : i \in 1..Len(s)} : \A i \in 1..Len(s) : v <= s[i]

SeqMax(s) == CHOOSE v \in {s[i] : i \in 1..Len(s)} : \A i \in 1..Len(s) : v >= s[i]

\* a || 1
OrOne(a) == IF a = 0 THEN 1 ELSE a

\* lines 206-213: <<width, height>> of the grid for the two ranges
GridDims(rangeX, rangeY, gridSize) ==
    IF rangeX >= rangeY
    THEN <<gridSize, Max(1, RoundDiv(gridSize * rangeY, rangeX))>>
    ELSE <<Max(1, RoundDiv(gridSize * rangeX, rangeY)), gridSize>>

\* lines 219-221: the cell index a point is binned into
CellOf(p, minX, minY, rangeX, rangeY, width, height) ==
    LET gx == Min(width - 1, Max(0, ((p.x - minX) * (width - 1)) \div rangeX))
        gy == Min(height - 1, Max(0, ((p.y - minY) * (height - 1)) \div rangeY))
    IN  gy * width + gx

\* the sum of the z of the points whose index is in the set S
RECURSIVE SumZ(_, _)
SumZ(pts, S) ==
    IF S = {} THEN 0
    ELSE LET i == CHOOSE k \in S : TRUE IN pts[i].z + SumZ(pts, S \ {i})

\* lines 215-229: sums[i] / counts[i], NaN for a cell no point fell into
CellMeans(pts, minX, minY, rangeX, rangeY, width, height) ==
    [k \in 1..(width * height) |->
        LET S == {i \in 1..Len(pts) :
                    CellOf(pts[i], minX, minY, rangeX, rangeY, width, height) = k - 1}
        IN  IF S = {} THEN NaN ELSE SumZ(pts, S) \div Cardinality(S)]

\* the filled cells among the 3x3 neighbours of (x, y)
FilledNeighbours(elevations, x, y, width, height) ==
    {n \in {<<x + dx, y + dy>> : dx \in {-1, 0, 1}, dy \in {-1, 0, 1}} :
        /\ n[1] >= 0 /\ n[1] < width /\ n[2] >= 0 /\ n[2] < height
        /\ ~IsNaN(elevations[n[2] * width + n[1] + 1])}

\* the sum of the cells of a set of cell indices (from 1)
RECURSIVE SumCells(_, _)
SumCells(elevations, S) ==
    IF S = {} THEN 0
    ELSE LET k == CHOOSE j \in S : TRUE
         IN  elevations[k] + SumCells(elevations, S \ {k})

\* lines 234-250: one pass over the cells from index idx on, writing into the
\* array it reads; <<elevations, filled>>
RECURSIVE FillPass(_, _, _, _, _)
FillPass(elevations, idx, width, height, filled) ==
    IF idx >= width * height THEN <<elevations, filled>>
    ELSE IF ~IsNaN(elevations[idx + 1])
    THEN FillPass(elevations, idx + 1, width, height, filled)
    ELSE LET x   == idx % width
             y   == idx \div width
             nbs == FilledNeighbours(elevations, x, y, width, height)
             cnt == Cardinality(nbs)
             sum == SumCells(elevations, {n[2] * width + n[1] + 1 : n \in nbs})
         IN  IF cnt > 0
             THEN FillPass([elevations EXCEPT ![idx + 1] = sum \div cnt],
                           idx + 1, width, height, TRUE)
             ELSE FillPass(elevations, idx + 1, width, height, filled)

\* lines 231-253: up to MaxFillPasses passes, stopping after a pass that
\* filled nothing
RECURSIVE FillPasses(_, _, _, _)
FillPasses(elevations, passes, width, height) ==
    IF ~(passes < MaxFillPasses) THEN elevations
    ELSE LET r == FillPass(elevations, 0, width, height, FALSE)
         IN  IF ~r[2] THEN r[1]
             ELSE FillPasses(r[1], passes + 1, width, height)

\* lines 255-262: the cells still empty get the mean of the filled ones
\* (0 when none is filled); without that last resort they would stay empty
NoGlobalFill(elevations) == elevations

\* lines 255-262 with the mean written to every cell
GlobalOverwrite(elevations) ==
    LET S         == {k \in 1..Len(elevations) : ~IsNaN(elevations[k])}
        globalAvg == IF S = {} THEN 0
                     ELSE SumCells(elevations, S) \div Cardinality(S)
    IN  [k \in 1..Len(elevations) |-> globalAvg]

GlobalFill(elevations) ==
    LET S         == {k \in 1..Len(elevations) : ~IsNaN(elevations[k])}
        globalAvg == IF S = {} THEN 0
                     ELSE SumCells(elevations, S) \div Cardinality(S)
    IN  [k \in 1..Len(elevations) |->
            IF IsNaN(elevations[k]) THEN globalAvg ELSE elevations[k]]

\* pointsToGrid.  With no point at all the bounds stay at Infinity and
\* -Infinity: both ranges are -Infinity, aspect is NaN, "aspect >= 1" is
\* false, so height = gridSize and width = Math.max(1, Math.round(NaN)) =
\* NaN; new Float32Array(NaN) has length 0 and no loop body runs.
pointsToGrid(pts, gridSize) ==
    IF Len(pts) = 0
    THEN [elevations |-> <<>>, width |-> NaN, height |-> gridSize,
          minX |-> Infinity, maxX |-> MinusInfinity,
          minY |-> Infinity, maxY |-> MinusInfinity]
    ELSE LET minX   == SeqMin([i \in 1..Len(pts) |-> pts[i].x])
             maxX   == SeqMax([i \in 1..Len(pts) |-> pts[i].x])
             minY   == SeqMin([i \in 1..Len(pts) |-> pts[i].y])
             maxY   == SeqMax([i \in 1..Len(pts) |-> pts[i].y])
             rangeX == OrOne(maxX - minX)
             rangeY == OrOne(maxY - minY)
             dims   == GridDims(rangeX, rangeY, gridSize)
             width  == dims[1]
             height == dims[2]
             means  == CellMeans(pts, minX, minY, rangeX, rangeY, width, height)
         IN  [elevations |-> GlobalFill(FillPasses(means, 0, width, height)),
              width |-> width, height |-> height,
              minX |-> minX, maxX |-> maxX, minY |-> minY, maxY |-> maxY]

\* Math.ceil(Math.sqrt(n / 2)) for an integer n >= 0
CeilSqrtHalf(n) ==
    CHOOSE s \in 0..n : 2 * s * s >= n /\ (s = 0 \/ 2 * (s - 1) * (s - 1) < n)

\* lines 283-285: the grid size for n extracted points
LasGridSize(n) == Max(MinGridRes, Min(MaxGridRes, CeilSqrtHalf(n)))

\* lines 287-288: (max - min) / (cells - 1 || 1), as a fraction; with no
\* point the difference is -Infinity and the width NaN, NaN || 1 is 1
LasPixelSize(min, max, cells) ==
    IF min = Infinity THEN <<-1, 0>>
    ELSE Frac(max - min, OrOne(cells - 1))

\* lines 290-291 (with no point every comparison with the infinite bounds
\* holds)
LasIsGeographic(grid) ==
    \/ grid.minX = Infinity
    \/ grid.minX >= -180 /\ grid.maxX <= 180 /\ grid.minY >= -90 /\ grid.maxY <= 90

\* loadLasFile, after the header is parsed
loadLasPoints(c, header) ==
    LET kept == IF header.isLaz THEN extractPointsLaz(c, header)
                ELSE extractPointsUncompressed(c, header)
        pts  == [i \in 1..Len(kept) |-> LasPoint(c.records[kept[i] + 1], header)]
        grid == pointsToGrid(pts, LasGridSize(Len(pts)))
    IN  [status |-> "grid", by |-> "loadLasFile",
         width |-> grid.width, height |-> grid.height,
         elevations |-> grid.elevations,
         noDataValue |-> "null",
         pixelSizeX |-> LasPixelSize(grid.minX, grid.maxX, grid.width),
         pixelSizeY |-> LasPixelSize(grid.minY, grid.maxY, grid.height),
         crs |-> IF LasIsGeographic(grid) THEN "EPSG:4326" ELSE "null",
         originX |-> grid.minX, originY |-> grid.maxY,
         kept |-> kept, points |-> pts]

\* lines 271-273
LasNoPoints(header) == header.numberOfPoints = 0

loadLasFile(c) ==
    LET header == parseLasHeader(c)
    IN  IF header.status = "error"
        THEN Error("loadLasFile", header.message)
        ELSE IF LasNoPoints(header)
        THEN Error("loadLasFile", "LAS/LAZ file contains no points")
        ELSE loadLasPoints(c, header)

(***************************************************************************)
(* LAS: inputs and steps                                                   *)
(***************************************************************************)
\* the largest number of point records a file of the model holds or claims
MaxLasPoints == 3

\* the raw integer <<X, Y, Z>> triples of the point records
RawPoints == { <<0, 0, 0>>, <<2, 0, 12>>, <<0, 1, 12>>, <<2, 1, 24>> }

\* the <<scale, offset>> pairs of the headers, each a triple over the axes
LasTransforms == { << <<1, 1, 1>>, <<0, 0, 0>> >>, << <<2, 3, 1>>, <<10, -5, 24>> >> }

PlainVlr == [userId |-> "LASF_Projection", recordId |-> 34735, recordLength |-> 8]

VlrChoices ==
    { <<>>,
      <<PlainVlr>>,
      << [userId |-> "laszip encoded", recordId |-> 22204, recordLength |-> 52] >>,
      << PlainVlr, [userId |-> "other", recordId |-> 22204, recordLength |-> 52] >>,
      << [userId |-> "laszip encoded", recordId |-> 0, recordLength |-> 52] >> }

RECURSIVE VlrBytes(_)
VlrBytes(vlrs) ==
    IF vlrs = <<>> THEN 0 ELSE 54 + Head(vlrs).recordLength + VlrBytes(Tail(vlrs))

\* a well-formed file of version 1.minor: the records follow the variable
\* length records, n points are claimed and the records given are present
LasFile(minor, vlrs, n, records, tf, recordLength) ==
    LET start == VlrStart(minor) + VlrBytes(vlrs)
    IN  [kind |-> "las",
         length |-> start + Len(records) * recordLength,
         sig |-> <<"L", "A", "S", "F">>,
         versionMajor |-> 1, versionMinor |-> minor,
         offsetToPointData |-> start,
         numVLRs |-> Len(vlrs), vlrs |-> vlrs,
         pointDataRecordLength |-> recordLength,
         legacyPointCount |-> IF minor >= 4 THEN 0 ELSE n,
         pointCount64 |-> IF minor >= 4 THEN n ELSE 0,
         lazCount |-> n,
         scale |-> tf[1], offset |-> tf[2],
         records |-> records]

RecordSeqs(k) == [1..k -> RawPoints]

\* files that differ in their points: uncompressed ones hold any number of
\* the claimed records, compressed ones deliver all of them
PlainTransform == << <<1, 1, 1>>, <<0, 0, 0>> >>

LasPointFiles ==
    UNION {
        {LasFile(2, <<>>, n, r, tf, 20) :
            n \in k..MaxLasPoints, r \in RecordSeqs(k), tf \in LasTransforms}
        \cup {LasFile(2, <<PlainVlr>>, n, r, PlainTransform, 20) :
                n \in k..MaxLasPoints, r \in RecordSeqs(k)}
        \cup {LasFile(2, v, k, r, PlainTransform, 20) :
                v \in VlrChoices \ {<<>>, <<PlainVlr>>}, r \in RecordSeqs(k)}
        \cup {LasFile(2, <<PlainVlr, [userId |-> "other", recordId |-> 22204,
                                      recordLength |-> 52]>>, k, r, tf, 20) :
                r \in RecordSeqs(k), tf \in LasTransforms \ {PlainTransform}} :
        k \in 0..MaxLasPoints}

\* files that differ in their header: signature, version, truncation
LasHeaderFiles ==
    {[LasFile(minor, <<>>, n, [i \in 1..n |-> <<0, 0, 0>>], << <<1, 1, 1>>, <<0, 0, 0>> >>, 28)
        EXCEPT !.sig = sig, !.versionMajor = major, !.length = Min(@, len)] :
        <<minor, n, sig, major, len>> \in
            (0..5) \X (0..1) \X {<<"L", "A", "S", "F">>, <<"L", "A", "S", "X">>}
                   \X {1, 2} \X {3, 25, 226, 254, 1000}}

LasName == <<"c", ".", "l", "a", "s">>

LasInputs == {[name |-> LasName, content |-> c] : c \in LasPointFiles \cup LasHeaderFiles}

InitLas ==
    /\ input \in LasInputs
    /\ result = NoResult
    /\ calls = <<>>

\* a direct call of loadLasFile on the input
LoadLasFile ==
    /\ result = NoResult
    /\ input.content.kind = "las"
    /\ result' = loadLasFile(input.content)
    /\ calls' = Append(calls, "loadLasFile")
    /\ UNCHANGED input

NextLas == LoadLasFile

SpecLas == InitLas /\ [][NextLas]_vars

(***************************************************************************)
(* The resampler alone: pointsToGrid on any points and any grid size       *)
(***************************************************************************)
MaxGridPoints == 2

\* the grid sizes asked for; at 7 two points can leave a cell that three
\* fill passes do not reach
GridSizes == {1, 2, 3, 5, 7}

\* elevations are multiples of 12, so that the mean of up to four of them is
\* a whole number of units
GridPoints == [x : {0, 1, 3}, y : {0, 3}, z : {0, 1200}]

GridInputs ==
    {[name |-> <<>>, content |-> [kind |-> "points", pts |-> p, gridSize |-> g]] :
        <<p, g>> \in (UNION {[1..k -> GridPoints] : k \in 1..MaxGridPoints})
                     \X GridSizes}

InitGrid ==
    /\ input \in GridInputs
    /\ result = NoResult
    /\ calls = <<>>

\* a call of pointsToGrid on the input
PointsToGrid ==
    /\ result = NoResult
    /\ input.content.kind = "points"
    /\ result' = [status |-> "grid", by |-> "pointsToGrid",
                  grid |-> pointsToGrid(input.content.pts, input.content.gridSize)]
    /\ calls' = Append(calls, "pointsToGrid")
    /\ UNCHANGED input

NextGrid == PointsToGrid

SpecGrid == InitGrid /\ [][NextGrid]_vars

(***************************************************************************)
(* The two extraction paths alone, on files of up to MaxExtractPoints      *)
(* records; record i carries the raw point <<i, 0, 0>>                     *)
(***************************************************************************)
MaxExtractPoints == 7

ExtractFiles ==
    {LasFile(minor, <<>>, n, [i \in 1..k |-> <<i - 1, 0, 0>>],
             << <<1, 1, 1>>, <<0, 0, 0>> >>, len) :
        <<minor, n, k, len>> \in
            {q \in {2, 4} \X (0..MaxExtractPoints) \X (0..MaxExtractPoints) \X {12, 20, 34} :
                q[3] <= q[2]}}

ExtractInputs == {[name |-> LasName, content |-> c] : c \in ExtractFiles}

InitExtract ==
    /\ input \in ExtractInputs
    /\ result = NoResult
    /\ calls = <<>>

\* what the two paths have delivered so far
Extracted ==
    IF result = NoResult
    THEN [status |-> "extract", done |-> {}, uncompressed |-> <<>>, laz |-> <<>>]
    ELSE result

\* a call of extractPointsUncompressed on the input
ExtractUncompressed ==
    /\ "uncompressed" \notin Extracted.done
    /\ parseLasHeader(input.content).status = "header"
    /\ result' = [Extracted EXCEPT
                    !.done = @ \cup {"uncompressed"},
                    !.uncompressed =
                        extractPointsUncompressed(input.content,
                                                  parseLasHeader(input.content))]
    /\ calls' = Append(calls, "extractPointsUncompressed")
    /\ UNCHANGED input

\* a call of extractPointsLaz on the input; the decompressor needs every
\* record of the stream
ExtractLaz ==
    /\ "laz" \notin Extracted.done
    /\ parseLasHeader(input.content).status = "header"
    /\ Len(input.content.records) = input.content.lazCount
    /\ result' = [Extracted EXCEPT
                    !.done = @ \cup {"laz"},
                    !.laz = extractPointsLaz(input.content,
                                             parseLasHeader(input.content))]
    /\ calls' = Append(calls, "extractPointsLaz")
    /\ UNCHANGED input

NextExtract == ExtractUncompressed \/ ExtractLaz

SpecExtract == InitExtract /\ [][NextExtract]_vars

(***************************************************************************)
(* Decimal numbers in text.  A number read from text is kept in            *)
(* thousandths (1.5 is 1500); the texts of the model write at most three   *)
(* decimals.                                                               *)
(***************************************************************************)
\* String.prototype.substring(a, b) for 0 <= a <= b
Substring(s, a, b) == SubSeq(s, Min(a, Len(s)) + 1, Min(b, Len(s)))

\* the thousandths a run of decimals stands for
Thousandths(decimals) ==
    DigitsValue(SubSeq(decimals \o <<"0", "0", "0">>, 1, 3), 10)

InfinityWord == <<"I", "n", "f", "i", "n", "i", "t", "y">>

\* the number the leading digits of e write
LeadingDigits(e) == DigitsValue(SubSeq(e, 1, DigitRun(e, 10)), 10)

\* mant scaled by the exponent that follows the mark: a sign, then digits
Scaled(mant, e) ==
    IF Negative(e) THEN mant \div (10 ^ LeadingDigits(Unsigned(e)))
    ELSE mant * (10 ^ LeadingDigits(Unsigned(e)))

\* mant scaled by the exponent rest begins with, if it begins with one
WithExponent(mant, rest) ==
    IF rest # <<>> /\ Head(rest) \in {"e", "E"} THEN Scaled(mant, Tail(rest))
    ELSE mant

\* the number of the integer digits, the nf decimals at the head of frac
\* and the exponent after them; NaN when there is no digit at all
PointNumber(digits, frac, nf) ==
    IF digits = <<>> /\ nf = 0 THEN NaN
    ELSE WithExponent(DigitsValue(digits, 10) * 1000 + Thousandths(SubSeq(frac, 1, nf)),
                      SubSeq(frac, nf + 1, Len(frac)))

\* the number the first ni characters of u, all digits, begin: a point and
\* decimals may follow them, then an exponent
DigitsNumber(u, ni) ==
    IF ni < Len(u) /\ u[ni + 1] = "."
    THEN PointNumber(SubSeq(u, 1, ni), SubSeq(u, ni + 2, Len(u)),
                     DigitRun(SubSeq(u, ni + 2, Len(u)), 10))
    ELSE IF ni = 0 THEN NaN
    ELSE WithExponent(DigitsValue(SubSeq(u, 1, ni), 10) * 1000,
                      SubSeq(u, ni + 1, Len(u)))

\* the number at the head of u, which has lost its sign
UnsignedNumber(u) ==
    IF StartsWith(u, InfinityWord) THEN Infinity ELSE DigitsNumber(u, DigitRun(u, 10))

\* v, negated when neg
Negated(v, neg) ==
    IF IsNaN(v) \/ ~neg THEN v
    ELSE IF v = Infinity THEN MinusInfinity ELSE -v

\* parseFloat(s): leading white space, a sign, digits, a point and decimals,
\* an exponent; NaN when no digit is found
ParseFloat(s) ==
    Negated(UnsignedNumber(Unsigned(TrimStart(s))), Negative(TrimStart(s)))

IsFinite(v) == ~IsNaN(v) /\ v # Infinity /\ v # MinusInfinity

\* parseFloat(s) || dflt
ParseFloatOr(s, dflt) == NumberOr(ParseFloat(s), dflt)

\* can a match of -?\d+ begin at position i of s?
NumberStartsAt(s, i) ==
    \/ IsDigit(s[i])
    \/ s[i] = "-" /\ i < Len(s) /\ IsDigit(s[i + 1])

\* the lengths of the parts of the match of -?\d+\.?\d* that begins at
\* position i: its sign,
SignLength(s, i) == IF s[i] = "-" THEN 1 ELSE 0

\* the point at position j and the decimals after it,
DecimalsLength(s, j) ==
    IF j <= Len(s) /\ s[j] = "." THEN 1 + DigitRun(SubSeq(s, j + 1, Len(s)), 10)
    ELSE 0

\* the digits at position k, the point and the decimals
UnsignedLength(s, k) ==
    DigitRun(SubSeq(s, k, Len(s)), 10)
        + DecimalsLength(s, k + DigitRun(SubSeq(s, k, Len(s)), 10))

\* the length of the [+-]?\d* that begins at position k
SignedDigitsLength(s, k) ==
    IF k <= Len(s) /\ s[k] \in {"+", "-"}
    THEN 1 + DigitRun(SubSeq(s, k + 1, Len(s)), 10)
    ELSE DigitRun(SubSeq(s, k, Len(s)), 10)

\* the length of the [DEde]?[+-]?\d* that begins at position j
ExponentLength(s, j) ==
    IF j <= Len(s) /\ s[j] \in {"D", "E", "d", "e"}
    THEN 1 + SignedDigitsLength(s, j + 1)
    ELSE SignedDigitsLength(s, j)

\* the length of the match of -?\d+\.?\d* that begins at position i
NumberLength(s, i) == SignLength(s, i) + UnsignedLength(s, i + SignLength(s, i))

\* the length of the match of one pattern that begins at position i: the
\* pattern of corners has an exponent, that of numbers has none
MatchLength(s, i, exponent) ==
    IF exponent THEN NumberLength(s, i) + ExponentLength(s, i + NumberLength(s, i))
    ELSE NumberLength(s, i)

RECURSIVE MatchAll(_, _, _)
\* the match that begins at position i and is n long, then those after it
MatchAt(s, i, n, exponent) ==
    <<SubSeq(s, i, i + n - 1)>> \o MatchAll(s, i + n, exponent)

\* the matches of s that begin at the positions starts, leftmost first, each
\* resuming after the one before
MatchFirst(s, starts, exponent) ==
    IF starts = {} THEN <<>>
    ELSE MatchAt(s, Least(starts), MatchLength(s, Least(starts), exponent), exponent)

\* the matches of s from position from on
MatchAll(s, from, exponent) ==
    MatchFirst(s, {i \in from..Len(s) : NumberStartsAt(s, i)}, exponent)

\* s.match(/-?\d+\.?\d*/g) from position from on
MatchNumbers(s, from) == MatchAll(s, from, FALSE)

\* line, if it is not empty
NonEmpty(line) == IF line = <<>> THEN <<>> ELSE <<line>>

RECURSIVE TrimmedLines(_)
\* the lines of s, the first of which ends at the first of the positions
\* breaks
LinesAt(s, breaks) ==
    IF breaks = {} THEN NonEmpty(Trim(s))
    ELSE NonEmpty(Trim(SubSeq(s, 1, Least(breaks) - 1)))
             \o TrimmedLines(SubSeq(s, Least(breaks) + 1, Len(s)))

\* s.split(/\r?\n/).map(trim).filter(non-empty)
TrimmedLines(s) == LinesAt(s, {i \in 1..Len(s) : s[i] = "\n"})

(***************************************************************************)
(* USGS DEM decoder (Viewport.tsx).  A content is the text of the file;    *)
(* elevations and pixel sizes are in thousandths.                          *)
(***************************************************************************)
\* the length of the type A record
TypeALength == 1024

UsgsNoData == -32767

\* cornerSection.match(/-?\d+\.?\d*[DEde]?[+-]?\d*/g)
MatchCorners(s, from) == MatchAll(s, from, TRUE)

\* n.replace(/[Dd]/, "E"): the first D or d becomes E
ReplaceD(n) ==
    LET ds == {i \in 1..Len(n) : n[i] \in {"D", "d"}}
    IN  IF ds = {} THEN n ELSE [n EXCEPT ![Least(ds)] = "E"]

\* a ?? b on a sequence: element i when it exists, else element j
ElementOr(s, i, j) == IF i <= Len(s) THEN s[i] ELSE s[j]

\* extractCorners: "null", or the bounds of the corner coordinates
\* lines 288-301, on the matches parsed
CornersOf(parsed) ==
    IF Len(parsed) < 4 THEN [found |-> FALSE]
    ELSE IF \E i \in 1..Len(parsed) : ~IsFinite(parsed[i]) THEN [found |-> FALSE]
    ELSE LET xs == <<parsed[1], parsed[3], ElementOr(parsed, 5, 1),
                     ElementOr(parsed, 7, 3)>>
             ys == <<parsed[2], parsed[4], ElementOr(parsed, 6, 2),
                     ElementOr(parsed, 8, 4)>>
         IN  [found |-> TRUE, minX |-> SeqMin(xs), minY |-> SeqMin(ys),
              maxX |-> SeqMax(xs), maxY |-> SeqMax(ys)]

\* line 290
ParseCorners(nums) == [i \in 1..Len(nums) |-> ParseFloat(ReplaceD(nums[i]))]

extractCorners(header) ==
    CornersOf(ParseCorners(MatchCorners(Substring(header, 546, 738), 1)))

\* the concatenation of the sequences of a sequence
RECURSIVE Flatten(_)
Flatten(ss) == IF ss = <<>> THEN <<>> ELSE Head(ss) \o Flatten(Tail(ss))

\* lines 310-319: the finite numbers of all the lines of the text, in order
\* the numbers the matches nums write
ParseAll(nums) == [k \in 1..Len(nums) |-> ParseFloat(nums[k])]

\* lines 311-319, on the lines of the text
LinesValues(lines) ==
    SelectSeq(Flatten([i \in 1..Len(lines) |-> ParseAll(MatchNumbers(lines[i], 1))]),
              IsFinite)

DemTextValues(text) == LinesValues(TrimmedLines(text))

\* lines 321-348: the values laid out in rows of side cells
DemTextResult(allValues) ==
    LET side   == CeilSqrt(Len(allValues))
        width  == side
        height == CeilDiv(Len(allValues), side)
    IN  IF Len(allValues) = 0
        THEN Error("parseAsDemText", "No elevation values found in DEM file")
        ELSE [status |-> "grid", by |-> "parseAsDemText",
              width |-> width, height |-> height,
              elevations |-> [k \in 1..(width * height) |->
                                IF k <= Len(allValues) THEN allValues[k] ELSE 0],
              noDataValue |-> UsgsNoData,
              pixelSizeX |-> 1000, pixelSizeY |-> 1000,
              crs |-> "null", originX |-> 0, originY |-> 0]

\* parseAsDemText: the numbers of the text reshaped into a near-square grid
parseAsDemText(text) == DemTextResult(DemTextValues(text))

\* the test of lines 200-201 (HeaderBlank: the whole type A record is
\* trimmed instead of its name field)
HeaderBlank(typeA) == Len(Trim(typeA)) = 0

UsgsNameBlank(typeA) == Len(Trim(Substring(typeA, 0, 40))) = 0

\* lines 257-259
UsgsCrs(planimetricCode) ==
    IF planimetricCode = 1 THEN "UTM"
    ELSE IF planimetricCode = 0 THEN "EPSG:4326" ELSE "null"

\* lines 243-282: zeros, then the numbers after the type A record written
\* from the first cell on
UsgsGrid(typeA, numRows, numCols, values, coords) ==
    [status |-> "grid", by |-> "loadUsgsDemFile",
     width |-> numCols, height |-> numRows,
     elevations |-> [k \in 1..(numRows * numCols) |->
                       IF k <= Len(values) THEN ParseFloat(values[k]) ELSE 0],
     noDataValue |-> UsgsNoData,
     pixelSizeX |-> ParseFloatOr(Trim(Substring(typeA, 816, 828)), 1000),
     pixelSizeY |-> ParseFloatOr(Trim(Substring(typeA, 828, 840)), 1000),
     crs |-> UsgsCrs(ParseIntOr(Trim(Substring(typeA, 156, 162)), 0)),
     originX |-> IF coords.found THEN coords.minX ELSE 0,
     originY |-> IF coords.found THEN coords.maxY ELSE 0]

\* lines 200-249
UsgsHeader(text, typeA) ==
    LET numRows == ParseIntOr(Trim(Substring(typeA, 853, 859)), 0)
        numCols == ParseIntOr(Trim(Substring(typeA, 859, 865)), 0)
    IN  IF UsgsNameBlank(typeA)
        THEN Error("loadUsgsDemFile", "Invalid USGS DEM: could not read header")
        ELSE IF numRows = 0 \/ numCols = 0 THEN parseAsDemText(text)
        ELSE IF numRows * numCols < 0
        THEN Error("loadUsgsDemFile", "RangeError: Invalid typed array length")
        ELSE UsgsGrid(typeA, numRows, numCols,
                      MatchNumbers(Substring(text, TypeALength, Len(text)), 1),
                      extractCorners(typeA))

loadUsgsDemFile(c) == UsgsHeader(c.text, Substring(c.text, 0, TypeALength))

(***************************************************************************)
(* USGS DEM: inputs and steps                                              *)
(***************************************************************************)
\* the characters of a short text, one field of the header
Blank(n) == [i \in 1..n |-> " "]

\* a text right-aligned in a field of n characters
RightAligned(s, n) == Blank(n - Len(s)) \o s

\* a text left-aligned in a field of n characters
LeftAligned(s, n) == s \o Blank(n - Len(s))

UsgsNames ==
    { <<>>, <<"\t", " ", "\n">>, <<"Q", "u", "a", "d">>, <<"L", "o", "t", " ", "7">> }

\* the row and the column count fields
UsgsCounts ==
    { <<>>, <<"0">>, <<"1">>, <<"2">>, <<"3">>, <<"-", "2">>, <<"x">>, <<"2", ".", "9">> }

UsgsPlanimetricCodes == { <<>>, <<"0">>, <<"1">>, <<"2">>, <<"-", "1">>, <<"U">> }

UsgsResolutions == { <<>>, <<"3", "0", ".", "0">>, <<"0", ".", "3", "E", "+", "0", "2">> }

UsgsCorners ==
    { <<>>,
      <<"1", "0", " ", "2", "0", " ", "3", "0", " ", "-", "4", "0">>,
      <<"0", ".", "5", "D", "+", "0", "1", " ", "7", " ", "2", " ", "9", " ", "1">> }

\* the text after the type A record
UsgsBodies ==
    { <<>>,
      <<"n", "o", "n", "e">>,
      <<"5">>,
      <<"1", " ", "2", " ", "3">>,
      <<"1", "0", " ", "-", "5", "\n", "2", ".", "5", " ", "7", ".", " ", "x", "8">>,
      <<"1", " ", "2", "\r", "\n", "3", " ", "4", " ", "5", " ", "6", " ", "7">> }

\* how much of the text the file holds: all of it, or a prefix
UsgsCuts == {0, 30, 40, 860, 5000}

\* a file: the type A record (the name at 0, the planimetric code at 156,
\* the corners at 546, the resolutions at 816 and 828, the counts at 853 and
\* 859, blanks elsewhere) and the text that follows it
UsgsText(name, rows, cols, code, res, corners, body) ==
    LeftAligned(name, 156) \o RightAligned(code, 6) \o Blank(546 - 162)
        \o LeftAligned(corners, 816 - 546)
        \o RightAligned(res, 12) \o RightAligned(res, 12) \o Blank(853 - 840)
        \o RightAligned(rows, 6) \o RightAligned(cols, 6)
        \o Blank(TypeALength - 865)
        \o body

\* the headers vary in their counts with everything else plain, and in
\* everything else with the counts among a few; the last ones hold no digit
UsgsTexts ==
    {UsgsText(n, r, c, <<"1">>, <<>>, <<>>, b) :
        n \in UsgsNames, r \in UsgsCounts, c \in UsgsCounts, b \in UsgsBodies}
    \cup
    {Substring(UsgsText(n, r, <<"2">>, p, s, k, <<"1", " ", "2", " ", "3">>), 0, cut) :
        n \in UsgsNames, r \in {<<>>, <<"2">>}, p \in UsgsPlanimetricCodes,
        s \in UsgsResolutions, k \in UsgsCorners, cut \in UsgsCuts}
    \cup
    {UsgsText(<<"Q", "u", "a", "d">>, r, <<>>, <<>>, <<>>, <<>>, b) :
        r \in {<<>>, <<"x">>}, b \in UsgsBodies}

DemName == <<"c", ".", "d", "e", "m">>

UsgsInputs == {[name |-> DemName, content |-> [kind |-> "usgsdem", text |-> t]] :
                 t \in UsgsTexts}

InitUsgs ==
    /\ input \in UsgsInputs
    /\ result = NoResult
    /\ calls = <<>>

\* a direct call of loadUsgsDemFile on the input
LoadUsgsDemFile ==
    /\ result = NoResult
    /\ input.content.kind = "usgsdem"
    /\ result' = loadUsgsDemFile(input.content)
    /\ calls' = Append(calls, "loadUsgsDemFile")
    /\ UNCHANGED input

NextUsgs == LoadUsgsDemFile

SpecUsgs == InitUsgs /\ [][NextUsgs]_vars

(***************************************************************************)
(* ASCII XYZ decoder (loadXyz.ts).  A content is the text of the file;     *)
(* coordinates and elevations are in thousandths, and the cell a point     *)
(* falls into is computed on exact ratios.                                 *)
(***************************************************************************)
XyzSeparators == WhitespaceChars \cup {",", ";"}

RECURSIVE SplitParts(_)
\* the part that ends before position i, then the parts of what follows the
\* separators that begin there
SplitAt(s, i) ==
    <<SubSeq(s, 1, i - 1)>>
        \o SplitParts(SubSeq(s, Least({j \in (i + 1)..(Len(s) + 1) :
                                          j = Len(s) + 1 \/ s[j] \notin XyzSeparators}),
                             Len(s)))

\* the parts of s, the first of which ends before the first of the
\* positions seps
SplitFirst(s, seps) == IF seps = {} THEN <<s>> ELSE SplitAt(s, Least(seps))

\* line.split(/[\s,;]+/)
SplitParts(s) == SplitFirst(s, {i \in 1..Len(s) : s[i] \in XyzSeparators})

\* line 9: the lines kept
XyzLineKept(l) == Len(l) > 0 /\ l[1] # "#" /\ l[1] # "/"

\* lines 14-21 with the loop left at the first line without a point
XyzLineStrict(parts, rest) ==
    IF Len(parts) < 3 THEN <<>>
    ELSE IF IsFinite(ParseFloat(parts[1])) /\ IsFinite(ParseFloat(parts[2]))
            /\ IsFinite(ParseFloat(parts[3]))
    THEN <<[x |-> ParseFloat(parts[1]), y |-> ParseFloat(parts[2]),
            z |-> ParseFloat(parts[3])]>> \o rest
    ELSE <<>>

\* lines 14-21: the point of the parts of a line, if it has one, before the
\* points rest
XyzLine(parts, rest) ==
    LET x == ParseFloat(parts[1])
        y == ParseFloat(parts[2])
        z == ParseFloat(parts[3])
    IN  IF Len(parts) < 3 THEN rest
        ELSE IF IsFinite(x) /\ IsFinite(y) /\ IsFinite(z)
        THEN <<[x |-> x, y |-> y, z |-> z]>> \o rest
        ELSE rest

\* lines 13-22: the points of the lines from line i on
RECURSIVE XyzPoints(_, _)
XyzPoints(lines, i) ==
    IF i > Len(lines) THEN <<>>
    ELSE XyzLine(SplitParts(lines[i]), XyzPoints(lines, i + 1))

\* lines 44-51, on the distinct x and the distinct y of the n points
XyzLattice(n, uniqueX, uniqueY) ==
    IF Cardinality(uniqueX) > 1 /\ Cardinality(uniqueY) > 1
    THEN <<Cardinality(uniqueX), Cardinality(uniqueY)>>
    ELSE <<CeilSqrt(n), CeilDiv(n, CeilSqrt(n))>>

\* lines 38-51: <<width, height>>
XyzDims(points) ==
    XyzLattice(Len(points), {points[i].x : i \in 1..Len(points)},
               {points[i].y : i \in 1..Len(points)})

\* lines 60-62: the index of the cell point p is written to
XyzCell(p, minX, minY, rangeX, rangeY, width, height) ==
    LET ix == Min(((p.x - minX) * (width - 1)) \div rangeX, width - 1)
        iy == Min(((p.y - minY) * (height - 1)) \div rangeY, height - 1)
    IN  iy * width + ix

\* lines 53-63: zeros, then each point written in turn; the last point
\* written to a cell is the one it holds
XyzElevations(points, minX, minY, rangeX, rangeY, width, height) ==
    [k \in 1..(width * height) |->
        LET hits == {i \in 1..Len(points) :
                        XyzCell(points[i], minX, minY, rangeX, rangeY, width, height)
                            = k - 1}
        IN  IF hits = {} THEN 0 ELSE points[Greatest(hits)].z]

\* lines 53-89
XyzGrid(points, minX, maxX, minY, maxY, width, height) ==
    [status |-> "grid", by |-> "loadXyzFile",
     width |-> width, height |-> height,
     elevations |-> XyzElevations(points, minX, minY, OrOne(maxX - minX),
                                  OrOne(maxY - minY), width, height),
     noDataValue |-> "null",
     pixelSizeX |-> Frac(OrOne(maxX - minX), OrOne(width - 1)),
     pixelSizeY |-> Frac(OrOne(maxY - minY), OrOne(height - 1)),
     crs |-> "null", originX |-> minX, originY |-> maxY,
     points |-> points]

\* lines 24-51
XyzResult(points) ==
    LET xs == [i \in 1..Len(points) |-> points[i].x]
        ys == [i \in 1..Len(points) |-> points[i].y]
    IN  IF Len(points) = 0
        THEN Error("loadXyzFile", "No valid XYZ points found in file")
        ELSE XyzGrid(points, SeqMin(xs), SeqMax(xs), SeqMin(ys), SeqMax(ys),
                     XyzDims(points)[1], XyzDims(points)[2])

loadXyzFile(c) == XyzResult(XyzPoints(SelectSeq(TrimmedLines(c.text), XyzLineKept), 1))

(***************************************************************************)
(* ASCII XYZ: inputs and steps                                             *)
(***************************************************************************)
\* the largest number of lines of a text drawn from XyzLines
MaxXyzLines == 3

XyzLines ==
    { <<"1", " ", "1", " ", "1", "0">>,
      <<"2", " ", "1", " ", "2", "0">>,
      <<"1", "\t", "2", " ", " ", "3", "0", " ", "9">>,
      <<" ", "2", ",", "2", ";", "4", "0", "\r">>,
      <<"0", ".", "5", " ", "4", " ", "-", "2", ".", "5">>,
      <<"#", " ", "1", " ", "1", " ", "1">>,
      <<"3", " ", "3">>,
      <<"1", " ", "I", "n", "f", "i", "n", "i", "t", "y", " ", "5">> }

\* texts that are not made of those lines
OtherXyzTexts ==
    { <<"/", "/", "2", " ", "2", " ", "2", "\n", "x", " ", "1", " ", "1", "\n", "\n">>,
      <<"\n", "7", " ", "8", " ", "9", "\n", "\n", "/", "1", " ", "1", " ", "1">> }

\* lines joined by line feeds
RECURSIVE JoinLines(_)
JoinLines(ls) ==
    IF ls = <<>> THEN <<>>
    ELSE IF Len(ls) = 1 THEN ls[1]
    ELSE ls[1] \o <<"\n">> \o JoinLines(Tail(ls))

\* the lines "x y z" of the points of a cols x rows lattice, z = 10 * (x + cols * y)
Numeral(n) == IF n < 10 THEN <<Digits[n + 1]>>
              ELSE <<Digits[(n \div 10) + 1], Digits[(n % 10) + 1]>>

LatticeText(cols, rows) ==
    JoinLines([k \in 1..(cols * rows) |->
        LET x == ((k - 1) % cols) + 1
            y == ((k - 1) \div cols) + 1
        IN  Numeral(x) \o <<" ">> \o Numeral(y) \o <<" ">> \o Numeral(x + cols * (y - 1))
                \o <<"0">>])

\* the lines "x y z" of the lattice of the columns xs and the rows ys,
\* z = 10 * the number of the line
SpacedLatticeText(xs, ys) ==
    JoinLines([k \in 1..(Len(xs) * Len(ys)) |->
        Numeral(xs[((k - 1) % Len(xs)) + 1]) \o <<" ">>
            \o Numeral(ys[((k - 1) \div Len(xs)) + 1]) \o <<" ">>
            \o Numeral(k) \o <<"0">>])

\* lattices whose columns or rows are not evenly spaced
UnevenLatticeTexts ==
    {SpacedLatticeText(<<1, 2, 4>>, <<1, 2>>), SpacedLatticeText(<<1, 3>>, <<1, 2, 5>>),
     SpacedLatticeText(<<1, 3, 4>>, <<2, 3, 5>>)}

XyzTexts ==
    {JoinLines(ls) : ls \in UNION {[1..k -> XyzLines] : k \in 0..MaxXyzLines}}
    \cup UnevenLatticeTexts
    \cup {LatticeText(2, 2), LatticeText(3, 2), LatticeText(2, 3), LatticeText(3, 3)}
    \cup {LatticeText(3, 1), LatticeText(1, 3), LatticeText(2, 1)}
    \cup OtherXyzTexts

XyzName == <<"c", ".", "x", "y", "z">>

XyzInputs == {[name |-> XyzName, content |-> [kind |-> "xyz", text |-> t]] :
                t \in XyzTexts}

InitXyz ==
    /\ input \in XyzInputs
    /\ result = NoResult
    /\ calls = <<>>

\* a direct call of loadXyzFile on the input
LoadXyzFile ==
    /\ result = NoResult
    /\ input.content.kind = "xyz"
    /\ result' = loadXyzFile(input.content)
    /\ calls' = Append(calls, "loadXyzFile")
    /\ UNCHANGED input

NextXyz == LoadXyzFile

SpecXyz == InitXyz /\ [][NextXyz]_vars

(***************************************************************************)
(* Image + world file decoder (loadWorldFile.ts).  A content is what the   *)
(* browser makes of the image: whether createImageBitmap decodes it, the   *)
(* size of the bitmap, its pixels; and the companion world file, if one    *)
(* was supplied.  Elevations are in thousandths.                           *)
(***************************************************************************)
\* the <<r, g, b>> pixels a bitmap is filled with, in rotation
ImagePixels == << <<0, 0, 0>>, <<255, 255, 255>>, <<10, 20, 30>>, <<200, 0, 1>> >>

\* pixel i (from 0) of the bitmap
PixelAt(c, i) == ImagePixels[((i + c.pattern) % Len(ImagePixels)) + 1]

\* line 27: 0.299 r + 0.587 g + 0.114 b
Luminance(p) == 299 * p[1] + 587 * p[2] + 114 * p[3]

\* Math.abs on a parsed number
AbsNumber(v) ==
    IF IsNaN(v) THEN NaN
    ELSE IF v = Infinity \/ v = MinusInfinity THEN Infinity ELSE Abs(v)

\* lines 41-46: <<originX, originY, pixelSizeX, pixelSizeY>>
WorldFileLinesRead(lines) ==
    IF Len(lines) >= 6
    THEN <<NumberOr(ParseFloat(lines[5]), 0), NumberOr(ParseFloat(lines[6]), 0),
           NumberOr(AbsNumber(ParseFloat(lines[1])), 1000),
           NumberOr(AbsNumber(ParseFloat(lines[4])), 1000)>>
    ELSE <<0, 0, 1000, 1000>>

\* lines 30-47: <<originX, originY, pixelSizeX, pixelSizeY>>
WorldFileGeoreference(worldFile) ==
    IF worldFile.given /\ worldFile.text # <<>>
    THEN WorldFileLinesRead(TrimmedLines(worldFile.text))
    ELSE <<0, 0, 1000, 1000>>

loadImageWithWorldFile(c) ==
    IF ~c.decodes
    THEN Error("loadImageWithWorldFile", "InvalidStateError")
    ELSE IF ~c.context
    THEN Error("loadImageWithWorldFile", "Failed to create canvas context")
    ELSE LET geo == WorldFileGeoreference(c.worldFile)
         IN  [status |-> "grid", by |-> "loadImageWithWorldFile",
              width |-> c.width, height |-> c.height,
              elevations |-> [k \in 1..(c.width * c.height) |->
                                Luminance(PixelAt(c, k - 1))],
              noDataValue |-> "null",
              pixelSizeX |-> geo[3], pixelSizeY |-> geo[4],
              crs |-> "null", originX |-> geo[1], originY |-> geo[2]]

(***************************************************************************)
(* Image + world file: inputs and steps                                    *)
(***************************************************************************)
\* the largest width and height of a bitmap of the model
MaxImageSide == 3

WorldFileLines ==
    << <<"3", "0", ".", "0">>, <<"0">>, <<"0">>, <<"-", "3", "0", ".", "0">>,
       <<"5", "0", "0">>, <<"-", "7", "0", "0", ".", "5">> >>

WorldFiles ==
    { [given |-> FALSE, text |-> <<>>],
      [given |-> TRUE, text |-> <<>>],
      [given |-> TRUE, text |-> JoinLines(WorldFileLines)],
      [given |-> TRUE, text |-> JoinLines(SubSeq(WorldFileLines, 1, 5))],
      [given |-> TRUE, text |-> JoinLines([WorldFileLines EXCEPT ![1] = <<"0">>,
                                                               ![4] = <<"x">>])],
      [given |-> TRUE, text |-> JoinLines(<< <<>> >> \o WorldFileLines \o << <<"9">> >>)] }

ImageContents ==
    {c \in [kind : {"image"}, decodes : BOOLEAN, context : BOOLEAN,
            width : 1..MaxImageSide, height : 1..MaxImageSide,
            pattern : 0..(Len(ImagePixels) - 1), worldFile : WorldFiles] :
        (~c.decodes \/ ~c.context) =>
            (c.width = 1 /\ c.height = 1 /\ c.pattern = 0 /\ ~c.worldFile.given)}

ImageName == <<"c", ".", "p", "n", "g">>

ImageInputs == {[name |-> ImageName, content |-> c] : c \in ImageContents}

InitImage ==
    /\ input \in ImageInputs
    /\ result = NoResult
    /\ calls = <<>>

\* a direct call of loadImageWithWorldFile on the input
LoadImageWithWorldFile ==
    /\ result = NoResult
    /\ input.content.kind = "image"
    /\ result' = loadImageWithWorldFile(input.content)
    /\ calls' = Append(calls, "loadImageWithWorldFile")
    /\ UNCHANGED input

NextImage == LoadImageWithWorldFile

SpecImage == InitImage /\ [][NextImage]_vars

(***************************************************************************)
(* GeoTIFF decoder (loadGeoTiff.ts).  The geotiff library reads the file;  *)
(* a content is what the library reports: whether it can read the file,    *)
(* the size of the image, its first band, its tie points, pixel scale,     *)
(* GDAL no-data value and geo keys (0 for an absent key).                  *)
(***************************************************************************)
\* lines 58-64
GeoTiffCrs(c) ==
    IF c.projectedKey # 0 THEN "EPSG:" \o ToString(c.projectedKey)
    ELSE IF c.geographicKey # 0 THEN "EPSG:" \o ToString(c.geographicKey)
    ELSE "null"

loadGeoTiffFromFile(c) ==
    IF ~c.readable THEN Error("loadGeoTiffFromFile", "geotiff: invalid file")
    ELSE [status |-> "grid", by |-> "loadGeoTiffFromFile",
          width |-> c.width, height |-> c.height,
          elevations |-> [k \in 1..Len(c.band) |-> c.band[k]],
          noDataValue |-> IF c.noData.given THEN ToString(c.noData.value) ELSE "null",
          pixelSizeX |-> IF Len(c.modelScale) >= 2 THEN c.modelScale[1] ELSE 1000,
          pixelSizeY |-> IF Len(c.modelScale) >= 2 THEN c.modelScale[2] ELSE 1000,
          crs |-> GeoTiffCrs(c),
          originX |-> IF Len(c.tiepoints) > 0 THEN c.tiepoints[1].x ELSE 0,
          originY |-> IF Len(c.tiepoints) > 0 THEN c.tiepoints[1].y ELSE 0]

GeoTiffContents ==
    { [kind |-> "geotiff", readable |-> r, width |-> w, height |-> 2,
       band |-> [k \in 1..(2 * w) |-> 100 * k], tiepoints |-> t, modelScale |-> m,
       noData |-> n, projectedKey |-> p, geographicKey |-> g] :
        r \in BOOLEAN, w \in 1..2,
        t \in { <<>>, <<[x |-> 500000, y |-> 4100000]>> },
        m \in { <<>>, <<30000>>, <<30000, 30000, 0>> },
        n \in { [given |-> FALSE, value |-> 0], [given |-> TRUE, value |-> -9999] },
        p \in {0, 32616}, g \in {0, 4326} }

(***************************************************************************)
(* NetCDF decoder (loadNetcdf.ts).  The netcdfjs library reads the file; a *)
(* content is what the reader reports: its variables (name, dimension      *)
(* names, data, fill value) and its dimensions (name, size).               *)
(***************************************************************************)
ElevVarNames == <<"elevation", "dem", "z", "Band1", "height", "alt", "topo", "data">>

LonNames == <<"lon", "longitude", "x", "X">>

LatNames == <<"lat", "latitude", "y", "Y">>

VariableNames(c) == {c.variables[i].name : i \in 1..Len(c.variables)}

\* the first element of a sequence that satisfies Test, found or not
FirstWhere(s, Test(_)) ==
    LET hits == {i \in 1..Len(s) : Test(s[i])}
    IN  IF hits = {} THEN [found |-> FALSE]
        ELSE [found |-> TRUE, value |-> s[CHOOSE a \in hits : \A b \in hits : a <= b]]

\* reader.getDataVariable(name) for a variable that exists
DataVariable(c, name) ==
    LET IsNamed(v) == v.name = name IN FirstWhere(c.variables, IsNamed).value.data

\* lines 11-28: the name of the elevation variable, "" when there is none
NetcdfElevVar(c) ==
    LET IsPresent(n) == n \in VariableNames(c)
        IsPlane(v)   == Len(v.dimensions) = 2
        named        == FirstWhere(ElevVarNames, IsPresent)
        plane        == FirstWhere(c.variables, IsPlane)
    IN  IF named.found THEN named.value
        ELSE IF plane.found THEN plane.value.name ELSE ""

\* the size of the dimension of a name, 0 when there is none
DimensionSize(c, name) ==
    LET IsNamed(d) == d.name = name
        dim        == FirstWhere(c.dimensions, IsNamed)
    IN  IF dim.found THEN dim.value.size ELSE 0

\* lines 42-56: <<width, height>>
NetcdfDims(c, varMeta, rawData) ==
    LET dims   == varMeta.dimensions
        height == IF Len(dims) >= 2 THEN DimensionSize(c, dims[1]) ELSE 0
        width  == IF Len(dims) >= 2 THEN DimensionSize(c, dims[2]) ELSE 0
        side   == CeilSqrt(Len(rawData))
    IN  IF width = 0 \/ height = 0
        THEN <<side, CeilDiv(Len(rawData), side)>>
        ELSE <<width, height>>

\* lines 68-94: <<origin, pixel size>> along one axis from the coordinate
\* variable of the first name present; flip: the origin is the last value
\* when the values ascend
NetcdfAxis(c, names, flip) ==
    LET IsPresent(n) == n \in VariableNames(c)
        named        == FirstWhere(names, IsPresent)
        data         == DataVariable(c, named.value)
    IN  IF ~named.found \/ Len(data) < 2 THEN <<0, 1000>>
        ELSE <<IF flip /\ data[1] < data[Len(data)] THEN data[Len(data)] ELSE data[1],
               Abs(data[2] - data[1])>>

loadNetcdfFile(c) ==
    IF ~c.readable THEN Error("loadNetcdfFile", "netcdfjs: invalid file")
    ELSE LET elevVar == NetcdfElevVar(c)
         IN  IF elevVar = ""
             THEN Error("loadNetcdfFile", "No elevation variable found")
             ELSE IF Len(DataVariable(c, elevVar)) = 0
             THEN Error("loadNetcdfFile", "Variable contains no data")
             ELSE LET rawData    == DataVariable(c, elevVar)
                      IsNamed(v) == v.name = elevVar
                      varMeta    == FirstWhere(c.variables, IsNamed).value
                      dims       == NetcdfDims(c, varMeta, rawData)
                      lon        == NetcdfAxis(c, LonNames, FALSE)
                      lat        == NetcdfAxis(c, LatNames, TRUE)
                  IN  [status |-> "grid", by |-> "loadNetcdfFile",
                       width |-> dims[1], height |-> dims[2],
                       elevations |-> [k \in 1..(dims[1] * dims[2]) |->
                                         IF k <= Len(rawData) THEN rawData[k] ELSE 0],
                       noDataValue |-> IF varMeta.fill.given
                                       THEN ToString(varMeta.fill.value) ELSE "null",
                       pixelSizeX |-> lon[2], pixelSizeY |-> lat[2],
                       crs |-> "null", originX |-> lon[1], originY |-> lat[1]]

NoFill == [given |-> FALSE, value |-> 0]

NetcdfVariable(name, dimensions, data) ==
    [name |-> name, dimensions |-> dimensions, data |-> data, fill |-> NoFill]

NetcdfContents ==
    { [kind |-> "netcdf", readable |-> r, variables |-> v, dimensions |-> d] :
        r \in BOOLEAN,
        v \in { <<>>,
                << NetcdfVariable("time", <<"t">>, <<0>>) >>,
                << NetcdfVariable("lon", <<"x">>, <<1000, 3000>>),
                   NetcdfVariable("lat", <<"y">>, <<1000, 2000, 3000>>),
                   [NetcdfVariable("z", <<"y", "x">>, <<1, 2, 3, 4, 5, 6>>)
                        EXCEPT !.fill = [given |-> TRUE, value |-> -9999]] >>,
                << NetcdfVariable("surface", <<"y", "x">>, <<7, 8, 9>>) >>,
                << NetcdfVariable("dem", <<"y", "x">>, <<>>) >> },
        d \in { <<>>, << [name |-> "x", size |-> 2], [name |-> "y", size |-> 3] >> } }

(***************************************************************************)
(* Every decoder called directly                                           *)
(***************************************************************************)
DecoderInputs == UsgsInputs \cup DtedInputs \cup XyzInputs \cup LasInputs \cup ImageInputs

InitDecoders ==
    /\ input \in DecoderInputs
    /\ result = NoResult
    /\ calls = <<>>

NextDecoders ==
    \/ LoadUsgsDemFile
    \/ LoadDtedFile
    \/ LoadXyzFile
    \/ LoadLasFile
    \/ LoadImageWithWorldFile

SpecDecoders == InitDecoders /\ [][NextDecoders]_vars

(***************************************************************************)
(* The dispatcher (loader.ts).  The message of an error the dispatcher     *)
(* raises itself is kept with its parts apart: the format name, the text   *)
(* after the last dot of the file name, the description of the format and  *)
(* the sentence of advice that ends the message.                           *)
(***************************************************************************)
ConversionAdvice == "Try converting to GeoTIFF using GDAL or QGIS."

\* lines 27-30: the error for a format that is not supported
NotSupportedError(format, fileName) ==
    [status |-> "error", by |-> "loadRasterFile",
     message |-> "is a recognized GIS format but cannot be opened in the browser.",
     formatName |-> format.name, extension |-> LastDotSegment(fileName),
     description |-> format.description, guidance |-> ConversionAdvice]

\* line 61: the error of the default branch of the switch
UnsupportedFormatError(fileName) ==
    [status |-> "error", by |-> "loadRasterFile",
     message |-> "Unsupported format:", fileName |-> fileName, guidance |-> ""]

\* line 26 (EverySupported: the registry's flag is not consulted)
EverySupported(format) == TRUE

FormatSupported(format) == format.supported

\* lines 33-62: the decoder the switch selects for a format id, "none" for
\* the default branch
DecoderOf(id) ==
    CASE id \in {"geotiff", "cog", "erdas"} -> "loadGeoTiffFromFile"
      [] id = "xyz"       -> "loadXyzFile"
      [] id = "usgsdem"   -> "loadUsgsDemFile"
      [] id = "dted"      -> "loadDtedFile"
      [] id = "netcdf"    -> "loadNetcdfFile"
      [] id = "worldfile" -> "loadImageWithWorldFile"
      [] OTHER            -> "none"

\* the call of a decoder on the content of the file
Decode(decoder, c) ==
    CASE decoder = "loadGeoTiffFromFile"    -> loadGeoTiffFromFile(c)
      [] decoder = "loadXyzFile"            -> loadXyzFile(c)
      [] decoder = "loadUsgsDemFile"        -> loadUsgsDemFile(c)
      [] decoder = "loadDtedFile"           -> loadDtedFile(c)
      [] decoder = "loadNetcdfFile"         -> loadNetcdfFile(c)
      [] decoder = "loadImageWithWorldFile" -> loadImageWithWorldFile(c)

\* the decoders loadRasterFile calls on a file, in order
loadRasterFileCalls(file) ==
    LET format == detectFormat(file.name)
    IN  IF ~FormatSupported(format) \/ DecoderOf(format.id) = "none" THEN <<>>
        ELSE <<DecoderOf(format.id)>>

loadRasterFile(file) ==
    LET format == detectFormat(file.name)
    IN  IF ~FormatSupported(format) THEN NotSupportedError(format, file.name)
        ELSE IF DecoderOf(format.id) = "none" THEN UnsupportedFormatError(file.name)
        ELSE Decode(DecoderOf(format.id), file.content)

(***************************************************************************)
(* The dispatcher: inputs and steps.  A file's content is given as the     *)
(* decoder its name selects reads it; a file no decoder is selected for    *)
(* has a content nothing reads.                                            *)
(***************************************************************************)
Stems == { <<>>, <<"c">>, <<"a", ".", "b">>, <<"d", "e", "m", ".", "t", "i", "f", "f">> }

OtherExtensions ==
    { <<>>, <<".", "t", "x", "t">>, <<".", "t", "i", "f", ".", "e", "c", "w">>,
      <<".", "e", "c", "w", ".", "t", "i", "f">>, <<".", "l", "a", "s", ".", "b", "a", "k">>,
      <<"l", "a", "s">>, <<".", "h", "d", "f", "5", ".", "n", "c">> }

FileNames ==
    {s \o e : s \in Stems, e \in ALL_EXTENSIONS \cup OtherExtensions}
    \cup {s \o ToUpperCase(e) : s \in Stems, e \in ALL_EXTENSIONS}

OpaqueContent == [kind |-> "opaque"]

\* a few contents for each decoder
ContentsFor(decoder) ==
    CASE decoder = "loadGeoTiffFromFile" ->
            {c \in GeoTiffContents : c.tiepoints = <<>> /\ c.modelScale = <<>>
                                     /\ c.projectedKey = 0 /\ ~c.noData.given}
      [] decoder = "loadXyzFile" ->
            {[kind |-> "xyz", text |-> t] : t \in {<<>>, LatticeText(2, 2)}}
      [] decoder = "loadUsgsDemFile" ->
            {[kind |-> "usgsdem", text |-> UsgsText(n, <<"2">>, <<"2">>, <<"1">>, <<>>, <<>>,
                                                   <<"1", " ", "2", " ", "3">>)] :
                n \in {<<>>, <<"Q", "u", "a", "d">>}}
      [] decoder = "loadDtedFile" ->
            {c \in DtedContents : /\ c.pattern = 0
                                  /\ c.lonLines = CountField(1)
                                  /\ c.latPoints = CountField(1)
                                  /\ c.length \in {2, dataStart + 12}}
      [] decoder = "loadNetcdfFile" ->
            {c \in NetcdfContents : c.dimensions # <<>>}
      [] decoder = "loadImageWithWorldFile" ->
            {c \in ImageContents : c.width = 1 /\ c.height = 2 /\ c.pattern = 1}
      [] OTHER ->
            {OpaqueContent}
            \cup {c \in LasPointFiles : c.vlrs = <<>> /\ c.scale = <<1, 1, 1>>
                                        /\ c.legacyPointCount <= 1}

LoaderInputs ==
    UNION {{[name |-> n, content |-> c] :
                c \in ContentsFor(DecoderOf(detectFormat(n).id))} : n \in FileNames}

InitLoader ==
    /\ input \in LoaderInputs
    /\ result = NoResult
    /\ calls = <<>>

\* a call of loadRasterFile on the input: the dispatcher, and the decoder it
\* hands the file to
LoadRasterFile ==
    /\ result = NoResult
    /\ result' = loadRasterFile(input)
    /\ calls' = <<"loadRasterFile">> \o loadRasterFileCalls(input)
    /\ UNCHANGED input

NextLoader == LoadRasterFile

SpecLoader == InitLoader /\ [][NextLoader]_vars

(***************************************************************************)
(* detectFormat alone, on the file names of the dispatcher and on names in *)
(* mixed case; the result is the descriptor returned                       *)
(***************************************************************************)
MixedCaseNames ==
    { <<"a", ".", "T", "i", "F">>, <<".", "H", "d", "F", "5">>, <<"N", "c">>,
      <<"x", ".", "D", "t", "2", ".", "S", "i", "D">>, <<".">> }

DetectInputs == {[name |-> n, content |-> OpaqueContent] : n \in FileNames \cup MixedCaseNames}

InitDetect ==
    /\ input \in DetectInputs
    /\ result = NoResult
    /\ calls = <<>>

DetectFormat ==
    /\ result = NoResult
    /\ result' = [status |-> "format", by |-> "detectFormat",
                  format |-> detectFormat(input.name)]
    /\ calls' = Append(calls, "detectFormat")
    /\ UNCHANGED input

NextDetect == DetectFormat

SpecDetect == InitDetect /\ [][NextDetect]_vars

(***************************************************************************)
(* The App and its file upload.  The input is the files the user can       *)
(* select, the result the state of the App (terrainData, info, loading,    *)
(* fileName, error), and calls the loads in flight: the calls of           *)
(* handleFileSelected that have not yet come back from loadRasterFile.     *)
(* React renders before the next event is handled, so the disabled         *)
(* property of the upload is the loading state.                            *)
(***************************************************************************)
WORLD_FILE_EXTS ==
    { <<".", "j", "g", "w">>, <<".", "p", "g", "w">>, <<".", "b", "p", "w">>,
      <<".", "g", "f", "w">>, <<".", "t", "f", "w">>, <<".", "w", "l", "d">> }

\* FileUpload.tsx lines 27-28 and 32-33
IsWorldFileName(name) == \E ext \in WORLD_FILE_EXTS : EndsWith(ToLowerCase(name), ext)

\* lines 21-40 without the test of line 23
handleFilesEnabled(disabled, fileArr) ==
    LET main  == {i \in 1..Len(fileArr) : ~IsWorldFileName(fileArr[i].name)}
        world == {i \in 1..Len(fileArr) : IsWorldFileName(fileArr[i].name)}
    IN  IF main = {} THEN Null
        ELSE [file |-> fileArr[Least(main)],
              companionFile |-> IF world = {} THEN Null ELSE fileArr[Least(world)]]

\* lines 21-40: the call of onFileSelected made, Null when none is
handleFiles(disabled, fileArr) ==
    IF disabled THEN Null
    ELSE LET main  == {i \in 1..Len(fileArr) : ~IsWorldFileName(fileArr[i].name)}
             world == {i \in 1..Len(fileArr) : IsWorldFileName(fileArr[i].name)}
         IN  IF main = {} THEN Null
             ELSE [file |-> fileArr[Least(main)],
                   companionFile |-> IF world = {} THEN Null ELSE fileArr[Least(world)]]

\* The state of the App as constructed (lines 70-74)
App ==
    [status |-> "app", terrainData |-> Null, info |-> Null, loading |-> FALSE,
     fileName |-> Null, error |-> Null]

\* result.terrain and result.info of a decoder's result
TerrainOf(r) ==
    [elevations |-> r.elevations, width |-> r.width, height |-> r.height,
     noDataValue |-> r.noDataValue]

InfoOf(r) ==
    [width |-> r.width, height |-> r.height, pixelSizeX |-> r.pixelSizeX,
     pixelSizeY |-> r.pixelSizeY, crs |-> r.crs, noDataValue |-> r.noDataValue,
     originX |-> r.originX, originY |-> r.originY]

\* handleFileSelected up to its first await (lines 113-118)
Selected(app, file) ==
    [app EXCEPT !.loading = TRUE, !.error = Null, !.fileName = [name |-> file.name]]

\* lines 121-126: the file as loadRasterFile reads it; the text of the
\* companion is handed to the image decoder only
WorldFileContent(call) ==
    IF call.companionFile = Null THEN [given |-> FALSE, text |-> <<>>]
    ELSE [given |-> TRUE, text |-> call.companionFile.content.text]

Awaited(call) ==
    IF call.file.content.kind = "image"
    THEN [call.file EXCEPT !.content.worldFile = WorldFileContent(call)]
    ELSE call.file

\* lines 127-135, once loadRasterFile has returned r or thrown r
Settled(app, r) ==
    IF r.status = "grid"
    THEN [app EXCEPT !.terrainData = TerrainOf(r), !.info = InfoOf(r),
                     !.loading = FALSE]
    ELSE [app EXCEPT !.error = [message |-> r.message], !.terrainData = Null,
                     !.info = Null, !.loading = FALSE]

\* sampleTerrain.ts lines 43-91: the 256 x 256 synthetic grid, its
\* elevations left unevaluated
generateSampleTerrain ==
    [status |-> "grid", by |-> "generateSampleTerrain",
     elevations |-> [synthetic |-> TRUE], width |-> 256, height |-> 256,
     noDataValue |-> "null", pixelSizeX |-> Frac(1, 1000), pixelSizeY |-> Frac(-1, 1000),
     crs |-> "EPSG:4326", originX |-> -83500, originY |-> 37756]

SampleName ==
    <<"s", "a", "m", "p", "l", "e", "-", "t", "e", "r", "r", "a", "i", "n", ".",
      "s", "y", "n", "t", "h", "e", "t", "i", "c">>

\* lines 139-158; generateSampleTerrain does not throw
handleLoadSample(app) ==
    Settled([app EXCEPT !.loading = TRUE, !.error = Null,
                        !.fileName = [name |-> SampleName]],
            generateSampleTerrain)

(***************************************************************************)
(* The App: inputs and steps                                               *)
(***************************************************************************)
\* the most files of one selection, and the most loads in flight followed
MaxSelected == 2
MaxInFlight == 2

AppFiles ==
    { [name |-> <<"a", ".", "x", "y", "z">>,
       content |-> [kind |-> "xyz", text |-> LatticeText(2, 2)]],
      [name |-> <<"b", ".", "x", "y", "z">>,
       content |-> [kind |-> "xyz", text |-> LatticeText(3, 2)]],
      [name |-> <<"e", ".", "x", "y", "z">>,
       content |-> [kind |-> "xyz", text |-> <<"#">>]],
      [name |-> <<"d", ".", "x", "y", "z">>,
       content |-> [kind |-> "xyz", text |-> LatticeText(2, 3)]],
      [name |-> <<"f", ".", "X", "Y", "Z">>,
       content |-> [kind |-> "xyz", text |-> SpacedLatticeText(<<1, 2, 4>>, <<1, 2>>)]],
      [name |-> <<"c", ".", "j", "p", "2">>, content |-> OpaqueContent],
      [name |-> <<"n", ".", "t", "x", "t">>, content |-> OpaqueContent],
      [name |-> ImageName,
       content |-> [kind |-> "image", decodes |-> TRUE, context |-> TRUE, width |-> 1,
                    height |-> 1, pattern |-> 0,
                    worldFile |-> [given |-> FALSE, text |-> <<>>]]],
      [name |-> <<"c", ".", "P", "G", "W">>,
       content |-> [kind |-> "text", text |-> JoinLines(WorldFileLines)]] }

\* the selections: up to MaxSelected different files in some order
FileLists ==
    {fileArr \in UNION {[1..k -> AppFiles] : k \in 1..MaxSelected} :
        \A i, j \in 1..Len(fileArr) : i # j => fileArr[i] # fileArr[j]}

InitApp ==
    /\ input = [name |-> "files", content |-> AppFiles]
    /\ result = App
    /\ calls = <<>>

\* The user drops or picks files: FileUpload.handleFiles, and the part of
\* handleFileSelected that runs before loadRasterFile is awaited; a
\* selection for which onFileSelected is not called changes nothing
SelectFiles ==
    /\ Len(calls) < MaxInFlight
    /\ \E fileArr \in FileLists :
           IF handleFiles(result.loading, fileArr) = Null
           THEN UNCHANGED <<result, calls>>
           ELSE /\ result' = Selected(result, handleFiles(result.loading, fileArr).file)
                /\ calls' = Append(calls, handleFiles(result.loading, fileArr))
    /\ UNCHANGED input

\* The sample button, disabled while loading (line 297)
LoadSample ==
    /\ ~result.loading
    /\ result' = handleLoadSample(result)
    /\ UNCHANGED <<input, calls>>

\* loadRasterFile returns or throws for one of the loads in flight, and
\* handleFileSelected runs to its end
LoadSettles ==
    /\ \E i \in 1..Len(calls) :
           /\ result' = Settled(result, loadRasterFile(Awaited(calls[i])))
           /\ calls' = SubSeq(calls, 1, i - 1) \o SubSeq(calls, i + 1, Len(calls))
    /\ UNCHANGED input

NextApp ==
    \/ SelectFiles
    \/ LoadSample
    \/ LoadSettles

SpecApp == InitApp /\ [][NextApp]_vars

(***************************************************************************)
(* Terrain module (TerrainModule.ts).  The grid handed to the module has   *)
(* whole-number elevations.  A colour is <<r, g, b>>, a texel <<r, g, b,   *)
(* a>>.  Ratios are computed exactly where the source computes them in     *)
(* double precision; an angle is kept in whole degrees, rounded down.      *)
(***************************************************************************)
RampNames == {"terrain", "viridis", "magma", "arctic", "desert", "slope", "aspect"}

\* The stops of each ramp; a stop is <<position in hundredths, colour>>
COLOR_RAMPS ==
    [terrain |-> << <<0, <<22, 82, 44>> >>, <<15, <<60, 140, 60>> >>,
                    <<30, <<140, 180, 60>> >>, <<45, <<200, 190, 80>> >>,
                    <<55, <<180, 140, 70>> >>, <<70, <<150, 100, 60>> >>,
                    <<82, <<130, 80, 50>> >>, <<92, <<200, 200, 210>> >>,
                    <<100, <<255, 255, 255>> >> >>,
     viridis |-> << <<0, <<68, 1, 84>> >>, <<25, <<59, 82, 139>> >>,
                    <<50, <<33, 145, 140>> >>, <<75, <<94, 201, 98>> >>,
                    <<100, <<253, 231, 37>> >> >>,
     magma   |-> << <<0, <<0, 0, 4>> >>, <<25, <<81, 18, 124>> >>,
                    <<50, <<183, 55, 121>> >>, <<75, <<254, 159, 109>> >>,
                    <<100, <<252, 253, 191>> >> >>,
     arctic  |-> << <<0, <<10, 30, 60>> >>, <<20, <<20, 80, 130>> >>,
                    <<40, <<60, 150, 180>> >>, <<60, <<140, 200, 220>> >>,
                    <<80, <<210, 230, 240>> >>, <<100, <<250, 252, 255>> >> >>,
     desert  |-> << <<0, <<60, 40, 20>> >>, <<20, <<120, 80, 40>> >>,
                    <<40, <<180, 140, 80>> >>, <<60, <<210, 180, 120>> >>,
                    <<80, <<230, 210, 170>> >>, <<100, <<250, 240, 220>> >> >>]

\* lerp3(a, b, t) for t = n / d with d > 0
lerp3(a, b, n, d) ==
    [k \in 1..3 |-> a[k] + FloorDiv((b[k] - a[k]) * n, d)]

\* multiStop(stops, t) for t = p / q with q > 0: p is clamped into 0..q,
\* the first pair of stops that encloses it is interpolated
multiStop(stops, p, q) ==
    LET clamped == Max(0, Min(q, p))
        hits == {i \in 1..(Len(stops) - 1) :
                    /\ 100 * clamped >= stops[i][1] * q
                    /\ 100 * clamped <= stops[i + 1][1] * q}
    IN  IF hits = {}
        THEN stops[Len(stops)][2]
        ELSE lerp3(stops[Least(hits)][2], stops[Least(hits) + 1][2],
                   100 * clamped - stops[Least(hits)][1] * q,
                   (stops[Least(hits) + 1][1] - stops[Least(hits)][1]) * q)

\* hue2rgb(p, q, t) * 255, rounded, for s = 0.7 and l = 0.55 (so q = 0.865
\* and p = 0.235) and t = T / 360: the value is (599250 + 26775 * k) / 10000
\* where k is the number of degrees above p's plateau
hue2rgb(T) ==
    LET t == IF T < 0 THEN T + 360 ELSE IF T > 360 THEN T - 360 ELSE T
        k == IF t < 60 THEN t
             ELSE IF t < 180 THEN 60
             ELSE IF t < 240 THEN 240 - t
             ELSE 0
    IN  (599250 + 26775 * k + 5000) \div 10000

\* hslToRgb(deg / 360, 0.7, 0.55)
hslToRgb(deg) == <<hue2rgb(deg + 120), hue2rgb(deg), hue2rgb(deg - 120)>>

\* tan(d degrees) squared, in millionths, for d = 1..60
TanSquared ==
    <<305, 1219, 2747, 4890, 7654, 11047, 15076, 19752, 25086, 31091,
      37784, 45180, 53300, 62164, 71797, 82223, 93471, 105573, 118562, 132474,
      147352, 163237, 180179, 198229, 217443, 237883, 259616, 282715, 307259,
      333333, 361033, 390462, 421730, 454962, 490291, 527864, 567844, 610407,
      655750, 704088, 755659, 810727, 869584, 932555, 1000000, 1072323,
      1149975, 1233460, 1323347, 1420277, 1524971, 1638251, 1761048, 1894427,
      2039607, 2197987, 2371184, 2561071, 2769826, 3000000>>

\* The whole degrees of atan(sqrt(n / d)), at most `most` (at most 60)
AtanDegrees(n, d, most) ==
    Greatest({0} \cup {k \in 1..most : TanSquared[k] * d <= 1000000 * n})

\* The whole degrees of atan(b / a) for a, b >= 0, not both 0
QuadrantDegrees(b, a) ==
    IF b = 0 THEN 0
    ELSE IF a = 0 THEN 90
    ELSE IF b <= a THEN AtanDegrees(b * b, a * a, 45)
    ELSE 89 - AtanDegrees(a * a, b * b, 44)

\* (Math.atan2(y, x) * 180 / Math.PI + 360) % 360 in whole degrees; an
\* angle that is not a whole number of degrees is rounded down
atan2Degrees(y, x) ==
    LET q == QuadrantDegrees(Abs(y), Abs(x))
        whole == y = 0 \/ x = 0 \/ Abs(y) = Abs(x)
    IN  IF y >= 0
        THEN IF x >= 0 THEN q
             ELSE IF whole THEN 180 - q ELSE 179 - q
        ELSE IF x < 0 THEN 180 + q
             ELSE IF whole THEN (360 - q) % 360 ELSE 359 - q

\* data.elevations[idx]; a read outside the array (or at NaN) is undefined,
\* which is neither the no-data value nor finite, as NaN
ElementAt(data, idx) ==
    IF idx + 1 \in DOMAIN data.elevations THEN data.elevations[idx + 1] ELSE NaN

\* noDataValue !== null && v === noDataValue
IsNoData(data, v) == data.noDataValue.given /\ v = data.noDataValue.value

\* The fields of a module as constructed; exaggeration is in tenths, and
\* currentData is the grid as it is read through the reference the module
\* holds
TerrainModule ==
    [status |-> "module", mesh |-> FALSE, geometry |-> Null, material |-> FALSE,
     texture |-> Null, scene |-> FALSE, wireframeMesh |-> Null,
     wireframeMaterial |-> FALSE, currentData |-> Null, currentRamp |-> "terrain",
     exaggeration |-> 10, showWireframe |-> FALSE, minElev |-> 0, maxElev |-> 1]

init(m) == [m EXCEPT !.scene = TRUE]

maxSeg == 800

\* Math.floor((i / seg) * (n - 1)); 0 / 0 is NaN
SourceCoord(i, seg, n) ==
    IF seg = 0 THEN NaN ELSE FloorDiv(i * (n - 1), seg)

\* The height of one vertex, lines 126-136, as a fraction
VertexHeight(m, data, srcX, srcY) ==
    LET read == IF IsNaN(srcX) \/ IsNaN(srcY) THEN NaN
                ELSE ElementAt(data, srcY * data.width + srcX)
        elev == IF IsNoData(data, read) \/ ~IsFinite(read) THEN m.minElev ELSE read
    IN  Frac((elev - m.minElev) * 2 * m.exaggeration,
             IF m.maxElev - m.minElev = 0 THEN 1 ELSE m.maxElev - m.minElev)

VertexHeights(m, data, segW, segH) ==
    [v \in 1..((segW + 1) * (segH + 1)) |->
        VertexHeight(m, data, SourceCoord((v - 1) % (segW + 1), segW, data.width),
                     SourceCoord((v - 1) \div (segW + 1), segH, data.height))]

\* A geometry rebuild that stores the substituted elevations in the grid
ClampingGeometry(m) ==
    IF m.currentData = Null \/ ~m.scene
    THEN m
    ELSE [m EXCEPT !.mesh = TRUE,
                   !.currentData.elevations =
                       [i \in DOMAIN @ |->
                           IF IsNoData(m.currentData, @[i]) \/ ~IsFinite(@[i])
                           THEN m.minElev ELSE @[i]]]

rebuildGeometry(m) ==
    IF m.currentData = Null \/ ~m.scene
    THEN m
    ELSE [m EXCEPT !.geometry = [heights |->
                       VertexHeights(m, m.currentData,
                                     Min(m.currentData.width - 1, maxSeg),
                                     Min(m.currentData.height - 1, maxSeg))],
                   !.material = TRUE,
                   !.mesh = TRUE,
                   !.wireframeMaterial = TRUE,
                   !.wireframeMesh = [visible |-> m.showWireframe]]

\* Math.floor((t / tex) * n)
TextureCoord(t, tex, n) == FloorDiv(t * n, tex)

\* getElevAt with a cell without data lifted by the whole part of the
\* exaggeration
ExaggeratedElevAt(m, x, y) ==
    LET data == m.currentData
        v == ElementAt(data, Max(0, Min(data.height - 1, y)) * data.width
                             + Max(0, Min(data.width - 1, x)))
    IN  IF IsNoData(data, v) \/ ~IsFinite(v) THEN m.minElev + m.exaggeration \div 10 ELSE v

getElevAt(m, x, y) ==
    LET data == m.currentData
        v == ElementAt(data, Max(0, Min(data.height - 1, y)) * data.width
                             + Max(0, Min(data.width - 1, x)))
    IN  IF IsNoData(data, v) \/ ~IsFinite(v) THEN m.minElev ELSE v

\* Eight times dzdx and eight times dzdy of lines 240-250
dzdx(m, sx, sy) ==
    (getElevAt(m, sx + 1, sy - 1) + 2 * getElevAt(m, sx + 1, sy)
        + getElevAt(m, sx + 1, sy + 1))
    - (getElevAt(m, sx - 1, sy - 1) + 2 * getElevAt(m, sx - 1, sy)
        + getElevAt(m, sx - 1, sy + 1))

dzdy(m, sx, sy) ==
    (getElevAt(m, sx - 1, sy + 1) + 2 * getElevAt(m, sx, sy + 1)
        + getElevAt(m, sx + 1, sy + 1))
    - (getElevAt(m, sx - 1, sy - 1) + 2 * getElevAt(m, sx, sy - 1)
        + getElevAt(m, sx + 1, sy - 1))

\* A slope test that never finds the surface flat
NoFlatTest(A, B) == FALSE

\* slopeRad < 0.01 for dzdx = A / 8 and dzdy = B / 8: tan(0.01) squared is
\* 0.00010000667, so the squares must sum to less than 0.0064004
NearlyFlat(A, B) == 1000000 * (A * A + B * B) < 6401

\* The aspect in degrees, line 259
aspectDeg(A, B) == atan2Degrees(-B, A)

\* Math.floor(255 * (1 - t * 0.85)) with t = Math.min(1, slopeDeg / 60)
SlopeShade(A, B) ==
    FloorDiv(2550000 - 36125 * AtanDegrees(A * A + B * B, 64, 60), 10000)

Gray(v) == <<v, v, v, 255>>

\* The texel of lines 253-274 for dzdx = A / 8 and dzdy = B / 8
SlopeAspectTexel(A, B, isAspect) ==
    IF isAspect
    THEN IF NearlyFlat(A, B)
         THEN <<180, 180, 180, 255>>
         ELSE hslToRgb(aspectDeg(A, B)) \o <<255>>
    ELSE Gray(SlopeShade(A, B))

SourceTexel(m, sx, sy, isAspect) ==
    SlopeAspectTexel(dzdx(m, sx, sy), dzdy(m, sx, sy), isAspect)

renderSlopeAspect(m, texW, texH, isAspect) ==
    [k \in 1..(texW * texH) |->
        SourceTexel(m, TextureCoord((k - 1) % texW, texW, m.currentData.width),
                    TextureCoord((k - 1) \div texW, texH, m.currentData.height),
                    isAspect)]

\* The texel of lines 188-207 under an elevation ramp
RampTexel(m, data, elev) ==
    IF IsNoData(data, elev) \/ ~IsFinite(elev)
    THEN <<20, 20, 30, 255>>
    ELSE multiStop(COLOR_RAMPS[m.currentRamp], elev - m.minElev,
                   IF m.maxElev - m.minElev = 0 THEN 1 ELSE m.maxElev - m.minElev)
         \o <<255>>

MaxTexture == 1024

TexturePixels(m, data, texW, texH) ==
    IF m.currentRamp \in {"slope", "aspect"}
    THEN renderSlopeAspect(m, texW, texH, m.currentRamp = "aspect")
    ELSE [k \in 1..(texW * texH) |->
             RampTexel(m, data,
                 ElementAt(data,
                     TextureCoord((k - 1) \div texW, texH, data.height) * data.width
                     + TextureCoord((k - 1) % texW, texW, data.width)))]

rebuildTexture(m) ==
    IF m.currentData = Null \/ ~m.material
    THEN m
    ELSE [m EXCEPT !.texture =
             [width |-> Min(m.currentData.width, MaxTexture),
              height |-> Min(m.currentData.height, MaxTexture),
              pixels |-> TexturePixels(m, m.currentData,
                                       Min(m.currentData.width, MaxTexture),
                                       Min(m.currentData.height, MaxTexture))]]

clearTerrain(m) ==
    [m EXCEPT !.mesh = FALSE, !.wireframeMesh = Null, !.geometry = Null,
              !.material = FALSE, !.wireframeMaterial = FALSE, !.texture = Null]

\* The elevations the scan of lines 81-87 keeps
ScannedElevations(data) ==
    {data.elevations[i] : i \in {j \in DOMAIN data.elevations :
        ~IsNoData(data, data.elevations[j]) /\ IsFinite(data.elevations[j])}}

Ranged(m, kept) ==
    [m EXCEPT !.minElev = IF kept = {} THEN 0 ELSE Least(kept),
              !.maxElev = IF kept = {} THEN 1 ELSE Greatest(kept)]

loadTerrain(m, data) ==
    rebuildTexture(rebuildGeometry(
        Ranged([clearTerrain(m) EXCEPT !.currentData = data],
               ScannedElevations(data))))

setExaggeration(m, value) ==
    IF m.currentData # Null
    THEN rebuildGeometry([m EXCEPT !.exaggeration = value])
    ELSE [m EXCEPT !.exaggeration = value]

setColorRamp(m, ramp) ==
    IF m.currentData # Null
    THEN rebuildTexture([m EXCEPT !.currentRamp = ramp])
    ELSE [m EXCEPT !.currentRamp = ramp]

setWireframe(m, show) ==
    IF m.wireframeMesh # Null
    THEN [m EXCEPT !.showWireframe = show, !.wireframeMesh = [visible |-> show]]
    ELSE [m EXCEPT !.showWireframe = show]

dispose(m) == [clearTerrain(m) EXCEPT !.currentData = Null, !.scene = FALSE]

(***************************************************************************)
(* Terrain module: inputs and steps.  The input is the grid the viewer     *)
(* hands to the module, the result the fields of the module, and calls     *)
(* holds the last operation only.  A grid is a plane, tilted by gx per     *)
(* column and gy per row; it is one row or MaxTerrainSide rows high.        *)
(***************************************************************************)
MaxTerrainSide == 3

Tilts == {<<0, 0>>, <<0, 1>>, <<0, -1>>, <<1, 0>>, <<-1, 0>>, <<1, 2>>}

Exaggerations == {10, 25}

PlaneElevations(w, h, tilt) ==
    [k \in 1..(w * h) |-> 5 + tilt[1] * ((k - 1) % w) + tilt[2] * ((k - 1) \div w)]

\* The grids of one size: every plane whole, the flat and the oblique plane
\* also with a cell that is the no-data value or is not a number, and the
\* flat plane with a peak on its middle cell
TerrainGridsOf(w, h) ==
    {[width |-> w, height |-> h, noDataValue |-> [given |-> FALSE],
      elevations |-> PlaneElevations(w, h, t)] : t \in Tilts}
    \cup {[width |-> w, height |-> h, noDataValue |-> [given |-> TRUE, value |-> -9999],
           elevations |-> [PlaneElevations(w, h, t) EXCEPT ![hole[1]] = hole[2]]] :
              t \in {<<0, 0>>, <<1, 2>>}, hole \in {<<1, -9999>>, <<w * h, NaN>>}}
    \cup {[width |-> w, height |-> h, noDataValue |-> [given |-> FALSE],
           elevations |-> [PlaneElevations(w, h, <<0, 0>>)
                              EXCEPT ![(w * h + 1) \div 2] = 9]]}

TerrainGrids ==
    UNION {TerrainGridsOf(w, h) : w \in 1..MaxTerrainSide, h \in {1, MaxTerrainSide}}

InitTerrain ==
    /\ input \in {[name |-> "terrain", content |-> g] : g \in TerrainGrids}
    /\ result = TerrainModule
    /\ calls = <<>>

ModuleInit ==
    /\ result' = init(result)
    /\ calls' = <<"init">>
    /\ UNCHANGED input

LoadTerrain ==
    /\ result' = loadTerrain(result, input.content)
    /\ calls' = <<"loadTerrain">>
    /\ UNCHANGED input

SetExaggeration ==
    /\ \E value \in Exaggerations : result' = setExaggeration(result, value)
    /\ calls' = <<"setExaggeration">>
    /\ UNCHANGED input

SetColorRamp ==
    /\ \E ramp \in RampNames : result' = setColorRamp(result, ramp)
    /\ calls' = <<"setColorRamp">>
    /\ UNCHANGED input

SetWireframe ==
    /\ \E show \in BOOLEAN : result' = setWireframe(result, show)
    /\ calls' = <<"setWireframe">>
    /\ UNCHANGED input

Dispose ==
    /\ result' = dispose(result)
    /\ calls' = <<"dispose">>
    /\ UNCHANGED input

NextTerrain ==
    \/ ModuleInit
    \/ LoadTerrain
    \/ SetExaggeration
    \/ SetColorRamp
    \/ SetWireframe
    \/ Dispose

SpecTerrain == InitTerrain /\ [][NextTerrain]_vars

(***************************************************************************)
(* Terrain module: the Three.js objects it makes.  Beside the fields of    *)
(* the module, calls counts for each kind of object the constructor calls  *)
(* not yet followed by a dispose() of the object made.                     *)
(***************************************************************************)
ObjectKinds == {"geometry", "wireframeGeometry", "material", "wireframeMaterial", "texture"}

NoObjects == [kind \in ObjectKinds |-> 0]

\* 1 where the module holds an object, 0 where the field is null
One(held) == IF held THEN 1 ELSE 0

\* lines 101-102 (dispose), 117, 146 and 155-156 (new): wireGeo is a local of
\* rebuildGeometry, held by the wireframe mesh only
rebuildGeometryObjects(m, live) ==
    IF m.currentData = Null \/ ~m.scene
    THEN live
    ELSE [live EXCEPT !.geometry = @ - One(m.geometry # Null) + 1,
                      !.wireframeMaterial = @ - One(m.wireframeMaterial) + 1,
                      !.material = @ + One(~m.material),
                      !.wireframeGeometry = @ + 1]

\* lines 170 (dispose) and 212 (new)
rebuildTextureObjects(m, live) ==
    IF m.currentData = Null \/ ~m.material
    THEN live
    ELSE [live EXCEPT !.texture = @ - One(m.texture # Null) + 1]

\* lines 288-303: the four fields that are disposed of
clearTerrainObjects(m, live) ==
    [live EXCEPT !.geometry = @ - One(m.geometry # Null),
                 !.material = @ - One(m.material),
                 !.wireframeMaterial = @ - One(m.wireframeMaterial),
                 !.texture = @ - One(m.texture # Null)]

\* The module as loadTerrain has it before the rebuilds (lines 74-89)
Cleared(m, data) ==
    Ranged([clearTerrain(m) EXCEPT !.currentData = data], ScannedElevations(data))

loadTerrainObjects(m, data, live) ==
    rebuildTextureObjects(rebuildGeometry(Cleared(m, data)),
        rebuildGeometryObjects(Cleared(m, data), clearTerrainObjects(m, live)))

setExaggerationObjects(m, value, live) ==
    IF m.currentData # Null
    THEN rebuildGeometryObjects([m EXCEPT !.exaggeration = value], live)
    ELSE live

setColorRampObjects(m, ramp, live) ==
    IF m.currentData # Null
    THEN rebuildTextureObjects([m EXCEPT !.currentRamp = ramp], live)
    ELSE live

\* The most wireframe geometries followed; a step that would make one more
\* is not taken
MaxUndisposed == 3

\* Grids of one cell
ObjectGrids == TerrainGridsOf(1, 1)

InitObjects ==
    /\ input \in {[name |-> "terrain", content |-> g] : g \in ObjectGrids}
    /\ result = TerrainModule
    /\ calls = NoObjects

ObjectsInit ==
    /\ result' = init(result)
    /\ UNCHANGED <<input, calls>>

ObjectsLoadTerrain ==
    /\ calls.wireframeGeometry < MaxUndisposed
    /\ result' = loadTerrain(result, input.content)
    /\ calls' = loadTerrainObjects(result, input.content, calls)
    /\ UNCHANGED input

ObjectsSetExaggeration ==
    /\ calls.wireframeGeometry < MaxUndisposed
    /\ \E value \in Exaggerations :
           /\ result' = setExaggeration(result, value)
           /\ calls' = setExaggerationObjects(result, value, calls)
    /\ UNCHANGED input

ObjectsSetColorRamp ==
    /\ \E ramp \in RampNames :
           /\ result' = setColorRamp(result, ramp)
           /\ calls' = setColorRampObjects(result, ramp, calls)
    /\ UNCHANGED input

ObjectsSetWireframe ==
    /\ \E show \in BOOLEAN : result' = setWireframe(result, show)
    /\ UNCHANGED <<input, calls>>

ObjectsDispose ==
    /\ result' = dispose(result)
    /\ calls' = clearTerrainObjects(result, calls)
    /\ UNCHANGED input

NextObjects ==
    \/ ObjectsInit
    \/ ObjectsLoadTerrain
    \/ ObjectsSetExaggeration
    \/ ObjectsSetColorRamp
    \/ ObjectsSetWireframe
    \/ ObjectsDispose

SpecObjects == InitObjects /\ [][NextObjects]_vars

(***************************************************************************)
(* Claims about the DTED decoder                                           *)
(***************************************************************************)
\* C2: loadDtedFile never returns a partially decoded grid: a returned grid
\* has had every one of its declared column records decoded (a buffer too
\* short for them raises an error instead).
C2_NoPartialGrid ==
    (result.status = "grid" /\ result.by = "loadDtedFile")
        => result.columnsDecoded = result.width

\* C9: whenever the first three bytes are not "UHL", loadDtedFile ends in an
\* error and returns no grid, whatever the length and the rest of the buffer.
C9_BadSignatureRaises ==
    (result # NoResult /\ input.content.kind = "dted"
        /\ input.content.sig # <<"U", "H", "L">>)
        => result.status = "error"

\* a buffer long enough, with a well-formed header apart from its signature,
\* has been refused for its signature
C9_Witness ==
    /\ result.status = "error"
    /\ result.message = "Invalid DTED: missing UHL header signature"
    /\ input.content.sig = <<"U", "H", "X">>
    /\ input.content.length > DtedMinLength
    /\ input.content.lonLines = CountField(2)
    /\ input.content.latPoints = CountField(1)

\* the 16-bit word read as sign and magnitude: bit 15 is the sign, bits 0-14
\* the magnitude
SignMagnitude(word) == IF word >= 32768 THEN -(word - 32768) ELSE word

\* C10: every sample decodes to its 15-bit magnitude, negated when the top
\* bit of the high byte is set; sign bit with magnitude 100 gives -100; the
\* value lies in [-32767, 32767].
C10_SampleDecode ==
    result.status = "value" =>
        LET h == input.content.highByte
            l == input.content.lowByte
        IN  /\ result.value = SignMagnitude(h * 256 + l)
            /\ result.value >= -32767 /\ result.value <= 32767
            /\ (h = 128 /\ l = 100) => result.value = -100

\* the sample 0x80 0x64 has been decoded to -100
C10_Witness ==
    /\ result.status = "value"
    /\ input.content.highByte = 128 /\ input.content.lowByte = 100
    /\ result.value = -100

\* the r-th stored sample (from 0, southernmost first) of column record col
\* of the buffer, for a grid of H rows
StoredSample(c, col, r, H) ==
    DtedSample(ByteAt(c, dataStart + col * (8 + H * 2 + 4) + 8 + r * 2),
               ByteAt(c, dataStart + col * (8 + H * 2 + 4) + 8 + r * 2 + 1))

\* C11: in a grid of width W and height H decoded by loadDtedFile, the r-th
\* stored sample of column record col is found at index (H - 1 - r) * W + col
\* (columns run north to south), for every column record decoded; the cells
\* of the columns not decoded were written by no column and hold the fill
\* value, so each cell of a decoded column was written once, by its sample.
C11_ColumnsFlipped ==
    (result.status = "grid" /\ result.by = "loadDtedFile") =>
        \A col \in 0..(result.width - 1) : \A r \in 0..(result.height - 1) :
            result.elevations[(result.height - 1 - r) * result.width + col + 1]
                = IF col < result.columnsDecoded
                  THEN StoredSample(input.content, col, r, result.height)
                  ELSE DtedNoData

\* a grid of two rows, both columns decoded, whose southern and northern
\* samples of the first column differ
C11_Witness ==
    /\ result.status = "grid" /\ result.by = "loadDtedFile"
    /\ result.width = 2 /\ result.height = 2 /\ result.columnsDecoded = 2
    /\ StoredSample(input.content, 0, 0, 2) # StoredSample(input.content, 0, 1, 2)
    /\ result.elevations[3] = StoredSample(input.content, 0, 0, 2)
    /\ result.elevations[1] = StoredSample(input.content, 0, 1, 2)

(***************************************************************************)
(* Claims about the LAS/LAZ decoder                                        *)
(***************************************************************************)
\* C5: loadLasFile raises an error whenever the file yields no usable point
\* (a header count of zero, or a positive count of which no record can be
\* extracted): a grid it returns was built from at least one point.
C5_ZeroPointsRaise ==
    (result.status = "grid" /\ result.by = "loadLasFile")
        => Len(result.points) > 0

\* C6: for any non-empty set of points with finite coordinates and any grid
\* size, no cell of the grid pointsToGrid returns is NaN or left unfilled:
\* each is a mean of elevations, so a number between the lowest and the
\* highest elevation of the points.
C6_NoEmptyCell ==
    (result.status = "grid" /\ result.by = "pointsToGrid")
        => LET zs == [i \in 1..Len(input.content.pts) |-> input.content.pts[i].z]
               e  == result.grid.elevations
           IN  /\ Len(e) = result.grid.width * result.grid.height
               /\ Len(e) > 0
               /\ \A k \in 1..Len(e) :
                    ~IsNaN(e[k]) /\ e[k] >= SeqMin(zs) /\ e[k] <= SeqMax(zs)

\* two points on a 7 x 7 grid: the corner cell is out of reach of the three
\* fill passes and holds the mean of the cells they filled
C6_Witness ==
    /\ result.status = "grid" /\ result.by = "pointsToGrid"
    /\ input.content.gridSize = 7
    /\ input.content.pts = << [x |-> 0, y |-> 3, z |-> 0], [x |-> 3, y |-> 0, z |-> 1200] >>
    /\ Len(result.grid.elevations) = 49
    /\ LET means  == CellMeans(input.content.pts, 0, 0, 3, 3, 7, 7)
           passed == FillPasses(means, 0, 7, 7)
       IN  /\ IsNaN(passed[1])
           /\ ~IsNaN(result.grid.elevations[1])

\* the indices 0, stride, 2 * stride, ... below n
StrideIndices(n, stride) == {i \in 0..(n - 1) : i % stride = 0}

\* the set of the elements of a sequence
Range(s) == {s[i] : i \in 1..Len(s)}

\* what C7 says of the indices one path retained of n records under PointCap
RetainedAsClaimed(kept, n) ==
    LET stride == IF n <= PointCap THEN 1 ELSE CeilDiv(n, PointCap)
    IN  /\ Range(kept) = StrideIndices(n, stride)
        /\ Len(kept) = Cardinality(Range(kept))
        /\ \A i \in 1..(Len(kept) - 1) : kept[i] < kept[i + 1]
        /\ Len(kept) <= PointCap
        /\ n > 0 => /\ kept[1] = 0
                    /\ kept[Len(kept)] > n - 1 - stride

\* C7: when every one of the N records is present, each extraction path
\* retains exactly the indices that are multiples of stride = ceil(N / cap)
\* (1 when N <= cap): at most cap of them, the first record among them, the
\* last retained index above N - 1 - stride, and both paths the same indices.
C7_StrideRetention ==
    (result.status = "extract"
        /\ Len(input.content.records) = parseLasHeader(input.content).numberOfPoints)
        => LET n == parseLasHeader(input.content).numberOfPoints
           IN  /\ "uncompressed" \in result.done
                    => RetainedAsClaimed(result.uncompressed, n)
               /\ "laz" \in result.done => RetainedAsClaimed(result.laz, n)
               /\ result.done = {"uncompressed", "laz"}
                    => result.uncompressed = result.laz

\* both paths have run on a file of more records than the cap
C7_Witness ==
    /\ result.status = "extract"
    /\ result.done = {"uncompressed", "laz"}
    /\ Len(input.content.records) = MaxExtractPoints
    /\ parseLasHeader(input.content).numberOfPoints = MaxExtractPoints
    /\ MaxExtractPoints > PointCap
    /\ Len(result.uncompressed) > 1
    /\ result.uncompressed[2] = CeilDiv(MaxExtractPoints, PointCap)

\* A whole number that is at least 1 (not NaN, not negative, not 0)
PositiveInteger(v) == ~IsNaN(v) /\ v >= 1

\* The sides C24 calls for, for the target resolution and the two ranges of
\* the bounding box of the points (not both 0): the side along the longer
\* range is the target, the other one the target scaled by the ratio of the
\* ranges, rounded, and at least 1
SidesAsClaimed(r, target, rangeX, rangeY) ==
    /\ PositiveInteger(r.width) /\ PositiveInteger(r.height)
    /\ Max(r.width, r.height) = target
    /\ target <= MaxGridRes
    /\ Min(r.width, r.height)
          = Max(1, RoundDiv(target * Min(rangeX, rangeY), Max(rangeX, rangeY)))
    /\ rangeX > rangeY => r.width = target
    /\ rangeY > rangeX => r.height = target

CoordinateRange(s) == SeqMax(s) - SeqMin(s)

\* C24: for a non-empty point set of size n the larger side of the LAS grid
\* is the target resolution max(MinGridRes, min(MaxGridRes, ceil(sqrt(n / 2)))),
\* the smaller side max(1, round(target * shorter range / longer range)),
\* and both are at least 1
C24_GridSides ==
    (result.status = "grid" /\ result.by = "loadLasFile" /\ Len(result.points) > 0
        /\ \E i \in 1..Len(result.points) : result.points[i] # result.points[1])
        => SidesAsClaimed(result,
               Max(MinGridRes, Min(MaxGridRes, CeilSqrtHalf(Len(result.points)))),
               CoordinateRange([i \in 1..Len(result.points) |-> result.points[i].x]),
               CoordinateRange([i \in 1..Len(result.points) |-> result.points[i].y]))

\* Two points that share their X and differ by 1 in Y are given a square
\* grid of the target resolution
C24_SegmentMadeSquare ==
    /\ result.status = "grid" /\ result.by = "loadLasFile"
    /\ Len(result.points) = 2
    /\ result.points[1].x = result.points[2].x
    /\ Abs(result.points[1].y - result.points[2].y) = 1
    /\ result.width = MinGridRes /\ result.height = MinGridRes

\* The points of pts binned into cell k (from 1) of the grid g
BinnedInto(g, pts, k) ==
    {i \in 1..Len(pts) :
        CellOf(pts[i], g.minX, g.minY, OrOne(g.maxX - g.minX), OrOne(g.maxY - g.minY),
               g.width, g.height) = k - 1}

\* Cell k holds the arithmetic mean of the elevations of the points S
HoldsMean(g, pts, k, S) == g.elevations[k] * Cardinality(S) = SumZ(pts, S)

\* C25: in the grid pointsToGrid returns, every cell that received a point
\* holds the mean of the elevations of exactly the points binned into it:
\* the fill passes and the global mean leave it as it was
C25_PopulatedKeepMean ==
    (result.status = "grid" /\ result.by = "pointsToGrid") =>
        \A k \in 1..Len(result.grid.elevations) :
            BinnedInto(result.grid, input.content.pts, k) # {}
                => HoldsMean(result.grid, input.content.pts, k,
                             BinnedInto(result.grid, input.content.pts, k))

\* Two points in the same corner of a 5 x 5 grid, and a third cell with a
\* point of its own: the corner holds the mean of its two points, the
\* other cell its point, and the cells between them were filled
C25_Witness ==
    /\ result.status = "grid" /\ result.by = "pointsToGrid"
    /\ input.content.gridSize = 5
    /\ input.content.pts = << [x |-> 0, y |-> 0, z |-> 0], [x |-> 3, y |-> 3, z |-> 1200] >>
    /\ BinnedInto(result.grid, input.content.pts, 1) = {1}
    /\ BinnedInto(result.grid, input.content.pts, 25) = {2}
    /\ BinnedInto(result.grid, input.content.pts, 13) = {}
    /\ result.grid.elevations[1] = 0
    /\ result.grid.elevations[25] = 1200
    /\ BinnedInto(result.grid, input.content.pts, 19) = {}
    /\ ~IsNaN(result.grid.elevations[13])
    /\ result.grid.elevations[19] \notin {0, 1200}

\* The cells around cell k (from 1) of the grid g, k excluded
NeighbourCells(g, k) ==
    {j \in 1..Len(g.elevations) :
        /\ j # k
        /\ Abs(((j - 1) % g.width) - ((k - 1) % g.width)) <= 1
        /\ Abs(((j - 1) \div g.width) - ((k - 1) \div g.width)) <= 1}

\* The cells around cell k that received a point
PopulatedAround(g, pts, k) == {j \in NeighbourCells(g, k) : BinnedInto(g, pts, j) # {}}

\* Cell k holds the average of the cells S
HoldsAverage(g, k, S) == g.elevations[k] = SumCells(g.elevations, S) \div Cardinality(S)

\* C26: a fill pass gives an empty cell the average of only those cells
\* around it that were filled when the pass began; so an empty cell next to
\* a cell that received a point holds, in the returned grid, the average of
\* the cells around it that received a point
C26_FilledFromPassStart ==
    (result.status = "grid" /\ result.by = "pointsToGrid") =>
        \A k \in 1..Len(result.grid.elevations) :
            (/\ BinnedInto(result.grid, input.content.pts, k) = {}
             /\ PopulatedAround(result.grid, input.content.pts, k) # {})
                => HoldsAverage(result.grid, k,
                                PopulatedAround(result.grid, input.content.pts, k))

\* Two points in opposite corners of a 5 x 5 grid: the cell diagonally next
\* to the last corner has that corner as its only populated neighbour, and
\* holds the average of it and of four cells filled earlier in the same pass
C26_SamePassFeeds ==
    /\ result.status = "grid" /\ result.by = "pointsToGrid"
    /\ input.content.gridSize = 5
    /\ input.content.pts = << [x |-> 0, y |-> 0, z |-> 0], [x |-> 3, y |-> 3, z |-> 1200] >>
    /\ PopulatedAround(result.grid, input.content.pts, 19) = {25}
    /\ result.grid.elevations[25] = 1200
    /\ result.grid.elevations[19] = 240
    /\ \A k \in 2..18 : result.grid.elevations[k] = 0

(***************************************************************************)
(* Claims about the USGS DEM decoder                                       *)
(***************************************************************************)
\* C8: loadUsgsDemFile raises an error, and returns no grid, for every text
\* whose first 40 characters (the name field) are all blank, whatever the
\* rest of the header and the data section hold.
C8_BlankNameRaises ==
    (result # NoResult /\ input.content.kind = "usgsdem"
        /\ \A i \in 1..Min(40, Len(input.content.text)) :
                input.content.text[i] \in WhitespaceChars)
        => result.status = "error"

\* a text with a blank name, well-formed counts and a data section has been
\* refused
C8_Witness ==
    /\ result.status = "error"
    /\ result.message = "Invalid USGS DEM: could not read header"
    /\ input.content.text =
            UsgsText(<<>>, <<"2">>, <<"2">>, <<"1">>, <<>>, <<>>, <<"1", " ", "2", " ", "3">>)
    /\ ParseInt(Trim(Substring(input.content.text, 853, 859))) = 2
    /\ Len(input.content.text) > TypeALength

\* The finite numbers written after the type A record, in file order
BodyTokens(text) ==
    SelectSeq(ParseAll(MatchNumbers(Substring(text, TypeALength, Len(text)), 1)),
              IsFinite)

\* The name field is not blank and a count field is missing, not a number
\* or zero
CountsUnusable(text) ==
    /\ \E i \in 1..Min(40, Len(text)) : text[i] \notin WhitespaceChars
    /\ \/ ParseIntOr(Trim(Substring(text, 853, 859)), 0) = 0
       \/ ParseIntOr(Trim(Substring(text, 859, 865)), 0) = 0

\* The near-square grid of n values: ceil(sqrt(n)) wide, ceil(n / width)
\* high, the values in cells 0..n-1 and 0 in the cells after them
NearSquare(r, values) ==
    /\ r.status = "grid"
    /\ r.width = CeilSqrt(Len(values))
    /\ r.height = CeilDiv(Len(values), r.width)
    /\ r.elevations = [k \in 1..(r.width * r.height) |->
                          IF k <= Len(values) THEN values[k] ELSE 0]

\* C22: when a count field is unusable and the name is not blank, and
\* numbers follow the 1024-character header, the decode returns the
\* near-square grid of the numbers that follow the header
C22_FallbackReshapes ==
    (result # NoResult /\ input.content.kind = "usgsdem"
        /\ CountsUnusable(input.content.text)
        /\ BodyTokens(input.content.text) # <<>>)
        => NearSquare(result, BodyTokens(input.content.text))

\* For a header whose only digit is the planimetric code 1, without counts,
\* followed by "1 2 3", the grid returned starts with the code
C22_HeaderCounted ==
    /\ input.content.kind = "usgsdem"
    /\ input.content.text =
            UsgsText(<<"Q", "u", "a", "d">>, <<>>, <<>>, <<"1">>, <<>>, <<>>,
                     <<"1", " ", "2", " ", "3">>)
    /\ result.status = "grid"
    /\ result.by = "parseAsDemText"
    /\ result.width = 2 /\ result.height = 2
    /\ result.elevations = <<1000, 1000, 2000, 3000>>

\* For a header without any digit, followed by "1 2 3", the grid returned
\* is the near-square grid of the three numbers
C22_PlainHeader ==
    /\ input.content.kind = "usgsdem"
    /\ input.content.text =
            UsgsText(<<"Q", "u", "a", "d">>, <<>>, <<>>, <<>>, <<>>, <<>>,
                     <<"1", " ", "2", " ", "3">>)
    /\ NearSquare(result, <<1000, 2000, 3000>>)

\* The CRS hint the planimetric code field calls for: the field is read as
\* an integer, and a field that does not read as one gives no hint
HintOf(field) ==
    IF ParseInt(field) = 1 THEN "UTM"
    ELSE IF ParseInt(field) = 0 THEN "EPSG:4326"
    ELSE "null"

\* C23: every grid returned by the USGS DEM decoder carries the hint 'UTM'
\* when the planimetric code is 1, 'EPSG:4326' when it is 0, and no hint
\* for every other or unreadable value of the field
C23_CrsFromCode ==
    (result.status = "grid" /\ input.content.kind = "usgsdem")
        => result.crs = HintOf(Trim(Substring(input.content.text, 156, 162)))

\* A grid decoded from a header whose planimetric code field is blank is
\* given the geographic hint
C23_BlankIsGeographic ==
    /\ input.content.kind = "usgsdem"
    /\ result.status = "grid"
    /\ result.by = "loadUsgsDemFile"
    /\ Trim(Substring(input.content.text, 156, 162)) = <<>>
    /\ result.crs = "EPSG:4326"

\* A grid decoded on the fallback path from a header whose planimetric code
\* is 1 is given no hint
C23_FallbackNoHint ==
    /\ input.content.kind = "usgsdem"
    /\ result.status = "grid"
    /\ result.by = "parseAsDemText"
    /\ Trim(Substring(input.content.text, 156, 162)) = <<"1">>
    /\ result.crs = "null"

(***************************************************************************)
(* Claims about the XYZ decoder                                            *)
(***************************************************************************)
\* the rank of v among the values of the set S: how many are smaller
Rank(v, S) == Cardinality({u \in S : u < v})

\* are the values of S evenly spaced?
EvenlySpaced(S) ==
    \A v \in S : (v - Least(S)) * (Cardinality(S) - 1)
                    = Rank(v, S) * (Greatest(S) - Least(S))

\* do the points form a complete, evenly spaced lattice: every pair of a
\* distinct x and a distinct y is the position of exactly one point
CompleteLattice(points) ==
    LET X == {points[i].x : i \in 1..Len(points)}
        Y == {points[i].y : i \in 1..Len(points)}
    IN  /\ Len(points) = Cardinality(X) * Cardinality(Y)
        /\ \A x \in X : \A y \in Y :
                \E i \in 1..Len(points) : points[i].x = x /\ points[i].y = y
        /\ EvenlySpaced(X) /\ EvenlySpaced(Y)

\* C12: when the points of the text form a complete, evenly spaced lattice,
\* loadXyzFile returns width = the number of distinct x, height = the number
\* of distinct y, and the z of each point in the cell whose column and row
\* are the ranks of its x and y among the distinct values.
C12_LatticeCells ==
    (result.status = "grid" /\ result.by = "loadXyzFile"
        /\ CompleteLattice(result.points)) =>
        LET points == result.points
            X == {points[i].x : i \in 1..Len(points)}
            Y == {points[i].y : i \in 1..Len(points)}
        IN  /\ result.width = Cardinality(X)
            /\ result.height = Cardinality(Y)
            /\ \A i \in 1..Len(points) :
                    result.elevations[Rank(points[i].y, Y) * result.width
                                        + Rank(points[i].x, X) + 1] = points[i].z

\* the example of the claim: "1 1 10\n2 1 20\n1 2 30\n2 2 40" decoded to a
\* 2 x 2 grid with the four elevations at their corners
C12_Example ==
    /\ input.content.kind = "xyz"
    /\ input.content.text = LatticeText(2, 2)
    /\ result.status = "grid"
    /\ result.width = 2 /\ result.height = 2
    /\ result.elevations = <<10000, 20000, 30000, 40000>>

\* The least Y of the points of a grid made from points
LeastY(r) == SeqMin([i \in 1..Len(r.points) |-> r.points[i].y])

\* The coordinate ranges the XYZ and the LAS decoder scale by
SpanX(r) == OrOne(SeqMax([i \in 1..Len(r.points) |-> r.points[i].x]) - r.originX)
SpanY(r) == OrOne(r.originY - LeastY(r))

\* every pair of a distinct x and a distinct y is the position of exactly
\* one point, and there is more than one distinct value on each axis
EveryPairOnce(points, X, Y) ==
    /\ Cardinality(X) > 1 /\ Cardinality(Y) > 1
    /\ Len(points) = Cardinality(X) * Cardinality(Y)
    /\ \A x \in X : \A y \in Y :
            \E i \in 1..Len(points) : points[i].x = x /\ points[i].y = y

\* The index (from 0) of the cell of the grid r that point p is written to
CellOfPoint(r, p) ==
    XyzCell(p, r.originX, LeastY(r), SpanX(r), SpanY(r), r.width, r.height)

\* C29: when the points form a complete lattice with more than one distinct
\* value on each axis, evenly spaced or not, every point is written to a
\* cell of its own: no two points share a cell, and the grid holds the
\* elevation of every point in the cell it was written to
C29_OwnCells ==
    (/\ result.status = "grid" /\ result.by = "loadXyzFile"
     /\ EveryPairOnce(result.points, {result.points[i].x : i \in 1..Len(result.points)},
                      {result.points[i].y : i \in 1..Len(result.points)})) =>
        /\ Len(result.elevations) = Len(result.points)
        /\ \A i, j \in 1..Len(result.points) :
                i # j => CellOfPoint(result, result.points[i])
                            # CellOfPoint(result, result.points[j])
        /\ \A i \in 1..Len(result.points) :
                result.elevations[CellOfPoint(result, result.points[i]) + 1]
                    = result.points[i].z

\* The lattice of the columns 1, 2, 4 and the rows 1, 2: the points of
\* column 2 overwrite those of column 1, and the middle column is left at 0
C29_ColumnsCollide ==
    /\ result.status = "grid" /\ result.by = "loadXyzFile"
    /\ input.content.text = SpacedLatticeText(<<1, 2, 4>>, <<1, 2>>)
    /\ result.width = 3 /\ result.height = 2
    /\ result.elevations = <<20000, 0, 30000, 50000, 0, 60000>>

\* A line of the text, trimmed, that is not blank and not a comment and
\* whose first three fields read as finite numbers
ValidTriple(l) ==
    /\ Len(l) > 0 /\ l[1] \notin {"#", "/"}
    /\ Len(SplitParts(l)) >= 3
    /\ \A k \in 1..3 : IsFinite(ParseFloat(SplitParts(l)[k]))

TripleOf(l) ==
    [x |-> ParseFloat(SplitParts(l)[1]), y |-> ParseFloat(SplitParts(l)[2]),
     z |-> ParseFloat(SplitParts(l)[3])]

ValidTriples(lines) == [i \in 1..Len(lines) |-> TripleOf(lines[i])]

\* C21: loadXyzFile raises an error exactly when no line yields three
\* finite numbers; otherwise it returns a grid made of the points of the
\* lines that do, in their order, whatever the other lines hold
C21_ErrorIffNoTriple ==
    (result # NoResult /\ input.content.kind = "xyz") =>
        /\ result.status \in {"error", "grid"}
        /\ result.status = "error"
              <=> SelectSeq(TrimmedLines(input.content.text), ValidTriple) = <<>>
        /\ result.status = "grid"
              => result.points
                   = ValidTriples(SelectSeq(TrimmedLines(input.content.text), ValidTriple))

\* A text of three lines, the second of which has two fields only, gives a
\* grid of the two points of the other lines
C21_Witness ==
    /\ input.content.kind = "xyz"
    /\ input.content.text =
           JoinLines(<< <<"1", " ", "1", " ", "1", "0">>, <<"3", " ", "3">>,
                        <<"2", " ", "1", " ", "2", "0">> >>)
    /\ result.status = "grid"
    /\ result.points = << [x |-> 1000, y |-> 1000, z |-> 10000],
                          [x |-> 2000, y |-> 1000, z |-> 20000] >>

(***************************************************************************)
(* Claims about the dispatcher                                             *)
(***************************************************************************)
\* C3: for every file name whose detected format is registered with
\* supported = false (.jp2, .jpx, .gpkg, .ecw, .sid, .hdf, .hdf5, .he5, .h5),
\* loadRasterFile calls no decoder and raises an error whose message carries
\* a non-empty advice on conversion.
C3_UnsupportedGuidance ==
    (result # NoResult
        /\ detectFormat(input.name).id \in {"jp2", "gpkg", "ecw", "mrsid", "hdf"})
        => /\ calls = <<"loadRasterFile">>
           /\ result.status = "error"
           /\ result.by = "loadRasterFile"
           /\ result.guidance # ""

\* an upper-case JPEG 2000 name has been refused with the advice
C3_Witness ==
    /\ input.name = <<"c", ".", "J", "P", "2">>
    /\ calls = <<"loadRasterFile">>
    /\ result.status = "error"
    /\ result.formatName = "JPEG 2000"
    /\ result.extension = <<"J", "P", "2">>
    /\ result.guidance = "Try converting to GeoTIFF using GDAL or QGIS."

\* C4: for every file name whose detected format is registered with
\* supported = true (.las and .laz included), loadRasterFile hands the file
\* to that format's decoder: the outcome is the decoder's grid or the
\* decoder's error, never the dispatcher's own "Unsupported format" error.
C4_SupportedDispatched ==
    (result # NoResult /\ detectFormat(input.name).supported)
        => /\ Len(calls) = 2
           /\ result.by # "loadRasterFile"

\* The extensions of the table a lower-cased name ends with
EndingsOf(lower) == {e \in ALL_EXTENSIONS : EndsWith(lower, e)}

\* The format that owns the longest of a non-empty set of extensions
LongestOwner(endings) ==
    LET longest == CHOOSE e \in endings : \A f \in endings : Len(f) <= Len(e)
    IN  FORMATS[CHOOSE i \in 1..Len(FORMATS) :
                    \E j \in 1..Len(FORMATS[i].extensions) :
                        FORMATS[i].extensions[j] = longest]

\* C18: detectFormat returns one descriptor for any name: the format owning
\* the longest extension of the table the lower-cased name ends with, and
\* the descriptor of id "unknown", not supported, when it ends with none
C18_LongestSuffix ==
    result.status = "format" =>
        IF EndingsOf(ToLowerCase(input.name)) = {}
        THEN result.format.id = "unknown" /\ ~result.format.supported
        ELSE result.format = LongestOwner(EndingsOf(ToLowerCase(input.name)))

\* A name in mixed case that holds one extension of the table before
\* another is given the format of the extension it ends with
C18_Witness ==
    /\ result.status = "format"
    /\ input.name = <<"x", ".", "D", "t", "2", ".", "S", "i", "D">>
    /\ EndingsOf(ToLowerCase(input.name)) = { <<".", "s", "i", "d">> }
    /\ result.format.id = "mrsid"

\* The formats of the table registered with supported = false
UnsupportedListed == {FORMATS[i] : i \in {j \in 1..Len(FORMATS) : ~FORMATS[j].supported}}

\* An error that reports the file as a recognized format and advises a
\* conversion
ReportedRecognized(r) ==
    /\ r.status = "error"
    /\ r.by = "loadRasterFile"
    /\ r.message = "is a recognized GIS format but cannot be opened in the browser."
    /\ r.guidance # ""

\* C20: loadRasterFile reports a file as a recognized format, with advice
\* on conversion, only when its format is listed in the table with
\* supported = false; a name of unknown extension is never reported so
C20_UnknownDistinguished ==
    (result # NoResult /\ ReportedRecognized(result))
        => detectFormat(input.name) \in UnsupportedListed

\* The file c.txt is refused as the recognized GIS format "Unknown", with
\* the advice to convert it
C20_UnknownRecognized ==
    /\ input.name = <<"c", ".", "t", "x", "t">>
    /\ ReportedRecognized(result)
    /\ result.formatName = "Unknown"
    /\ result.guidance = ConversionAdvice

(***************************************************************************)
(* Claims about every decoder                                              *)
(***************************************************************************)
\* C1: whenever a decoder (USGS DEM on its normal and its fallback path,
\* DTED, ASCII XYZ, LAS/LAZ, image + world file) returns a grid, the
\* elevations array has exactly width x height elements.
C1_LengthIsArea ==
    result.status = "grid"
        => /\ ~IsNaN(result.width) /\ ~IsNaN(result.height)
           /\ Len(result.elevations) = result.width * result.height

\* C16: every grid returned by a decoder has a width and a height that are
\* positive integers
C16_PositiveDimensions ==
    result.status = "grid"
        => PositiveInteger(result.width) /\ PositiveInteger(result.height)

\* The USGS DEM decoder returns a grid of width -2 and height -2 for a
\* header whose count fields both read -2
C16_NegativeCounts ==
    /\ result.status = "grid"
    /\ result.by = "loadUsgsDemFile"
    /\ result.width = -2 /\ result.height = -2
    /\ Len(result.elevations) = 4

\* The decoders that report the pixel size as a fraction <<n, d>>; the
\* others report it in thousandths
FractionSized == {"loadDtedFile", "loadLasFile", "loadXyzFile"}

\* A pixel size that is a number and is not 0
NonzeroNumber(by, v) ==
    IF by \in FractionSized
    THEN v[2] # 0 /\ v[1] # 0
    ELSE IsFinite(v) /\ v # 0

\* C17: every grid returned by a decoder has pixel sizes x and y that are
\* numbers and are not 0
C17_PixelSizeNonzero ==
    result.status = "grid"
        => /\ NonzeroNumber(result.by, result.pixelSizeX)
           /\ NonzeroNumber(result.by, result.pixelSizeY)

\* The DTED decoder returns a grid of pixel size 0 for a header whose
\* longitude interval field reads 0000
C17_ZeroInterval ==
    /\ result.status = "grid"
    /\ result.by = "loadDtedFile"
    /\ input.content.lonInterval = <<"0", "0", "0", "0">>
    /\ result.pixelSizeX[1] = 0 /\ result.pixelSizeX[2] # 0

\* The row of the grid r the decoder puts point p in
RowOfPoint(r, p) ==
    IF r.by = "loadXyzFile"
    THEN XyzCell(p, r.originX, LeastY(r), SpanX(r), SpanY(r), r.width, r.height) \div r.width
    ELSE CellOf(p, r.originX, LeastY(r), SpanX(r), SpanY(r), r.width, r.height) \div r.width

\* C28: in a grid of the XYZ or the LAS decoder whose points differ in Y,
\* the points with the greatest Y (the reported originY) are in row 0 and
\* those with the least Y in the last row
C28_NorthernRowFirst ==
    (/\ result.status = "grid"
     /\ result.by \in {"loadXyzFile", "loadLasFile"}
     /\ Len(result.points) > 0
     /\ LeastY(result) < result.originY) =>
        \A i \in 1..Len(result.points) :
            /\ result.points[i].y = result.originY
                  => RowOfPoint(result, result.points[i]) = 0
            /\ result.points[i].y = LeastY(result)
                  => RowOfPoint(result, result.points[i]) = result.height - 1

\* The 3 x 2 lattice with y = 1 and y = 2 is reported with its origin at
\* y = 2, and its row 0 holds the elevations of the points with y = 1
C28_SouthernRowFirst ==
    /\ result.status = "grid" /\ result.by = "loadXyzFile"
    /\ input.content.text = LatticeText(3, 2)
    /\ result.originY = 2000
    /\ result.width = 3 /\ result.height = 2
    /\ \A i \in 1..3 : result.points[i].y = 1000 /\ result.elevations[i] = result.points[i].z
    /\ \A i \in 4..6 : result.points[i].y = 2000 /\ result.elevations[i] = result.points[i].z

(***************************************************************************)
(* Claims about the terrain module                                         *)
(***************************************************************************)
\* The grid cell texel k of the module's texture is computed from
TexelColumn(m, k) ==
    TextureCoord((k - 1) % m.texture.width, m.texture.width, m.currentData.width)

TexelRow(m, k) ==
    TextureCoord((k - 1) \div m.texture.width, m.texture.height, m.currentData.height)

\* The eight neighbours of a cell, after edge clamping and no-data
\* substitution, hold one elevation
FlatAround(m, sx, sy) ==
    \A d \in (-1..1) \X (-1..1) :
        d # <<0, 0>> =>
            getElevAt(m, sx + d[1], sy + d[2]) = getElevAt(m, sx - 1, sy - 1)

SlopeAspectBuilt ==
    /\ result.status = "module"
    /\ result.texture # Null
    /\ result.currentRamp \in {"slope", "aspect"}

\* C13: for a texel whose eight edge-clamped neighbours hold one elevation
\* dzdx and dzdy are 0, and the texel is (180, 180, 180, 255) in aspect
\* mode and (255, 255, 255, 255) in slope mode
C13_FlatIsNeutral ==
    SlopeAspectBuilt =>
        \A k \in DOMAIN result.texture.pixels :
            FlatAround(result, TexelColumn(result, k), TexelRow(result, k)) =>
                /\ dzdx(result, TexelColumn(result, k), TexelRow(result, k)) = 0
                /\ dzdy(result, TexelColumn(result, k), TexelRow(result, k)) = 0
                /\ result.texture.pixels[k] =
                       IF result.currentRamp = "aspect"
                       THEN <<180, 180, 180, 255>>
                       ELSE <<255, 255, 255, 255>>

\* A flat 3x3 grid with a peak on its middle cell, rendered in aspect mode:
\* the eight neighbours of the peak are equal and its texel is neutral
C13_Witness ==
    /\ SlopeAspectBuilt
    /\ result.currentRamp = "aspect"
    /\ input.content.width = 3 /\ input.content.height = 3
    /\ input.content.elevations = <<5, 5, 5, 5, 9, 5, 5, 5, 5>>
    /\ FlatAround(result, 1, 1)
    /\ result.texture.pixels[5] = <<180, 180, 180, 255>>

\* The texture a module builds for a grid and a mode when nothing else has
\* been asked of it: it is constructed, given its scene, loaded and switched
FirstTexture(data, ramp) ==
    setColorRamp(loadTerrain(init(TerrainModule), data), ramp).texture

\* C14: a slope or aspect texture depends on the grid, the mode and the
\* texture resolution only: whatever ramps and exaggerations were selected
\* before the rebuild, the buffer is the one the first rebuild produced
C14_RebuildsAgree ==
    SlopeAspectBuilt => result.texture = FirstTexture(input.content, result.currentRamp)

\* A slope texture rebuilt by setColorRamp after the exaggeration has been
\* changed, on an oblique grid with a cell that is not a number
C14_Witness ==
    /\ SlopeAspectBuilt
    /\ result.currentRamp = "slope"
    /\ calls = <<"setColorRamp">>
    /\ result.exaggeration = 25
    /\ input.content.width = 3 /\ input.content.height = 3
    /\ input.content.elevations[9] = NaN
    /\ input.content.elevations[2] = 6
    /\ result.texture = FirstTexture(input.content, "slope")

\* C15: the module never writes the grid it was handed: the grid it holds
\* is, cell for cell, the grid as it was decoded
C15_GridNeverWritten ==
    (result.status = "module" /\ result.currentData # Null) =>
        result.currentData = input.content

\* After a geometry rebuild and a slope texture on a grid with a no-data
\* cell, the no-data cell is still in the grid
C15_Witness ==
    /\ SlopeAspectBuilt
    /\ result.currentRamp = "slope"
    /\ calls = <<"setExaggeration">>
    /\ result.geometry # Null
    /\ result.currentData = input.content
    /\ IsNoData(result.currentData, result.currentData.elevations[1])

\* The compass bearing of the steepest descent of a plane that falls along
\* one axis of the grid, rows running north to south and columns west to
\* east; A and B are eight times dzdx and dzdy
AxisBearing(A, B) ==
    IF A = 0 THEN (IF B > 0 THEN 0 ELSE 180)
    ELSE (IF A < 0 THEN 90 ELSE 270)

BearingRendered(texel, A, B) ==
    ((A = 0) # (B = 0)) =>
        /\ aspectDeg(A, B) = AxisBearing(A, B)
        /\ texel = hslToRgb(AxisBearing(A, B)) \o <<255>>

\* C19: where the steepest descent faces due north, east, south or west the
\* computed aspect is the bearing 0, 90, 180 or 270, and the texel has the
\* hue of that bearing
C19_CompassBearing ==
    (SlopeAspectBuilt /\ result.currentRamp = "aspect") =>
        \A k \in DOMAIN result.texture.pixels :
            BearingRendered(result.texture.pixels[k],
                            dzdx(result, TexelColumn(result, k), TexelRow(result, k)),
                            dzdy(result, TexelColumn(result, k), TexelRow(result, k)))

\* A 3x3 plane that falls toward the north (each row one unit higher than
\* the row north of it) is given the aspect 270 at its centre
C19_NorthFacing ==
    /\ SlopeAspectBuilt
    /\ result.currentRamp = "aspect"
    /\ input.content.width = 3 /\ input.content.height = 3
    /\ input.content.elevations = <<5, 5, 5, 6, 6, 6, 7, 7, 7>>
    /\ aspectDeg(dzdx(result, 1, 1), dzdy(result, 1, 1)) = 270
    /\ result.texture.pixels[5] = hslToRgb(270) \o <<255>>

\* The objects the fields of the module refer to: the wireframe geometry is
\* the geometry of the wireframe mesh
Held(m) ==
    [geometry |-> One(m.geometry # Null),
     wireframeGeometry |-> One(m.wireframeMesh # Null),
     material |-> One(m.material),
     wireframeMaterial |-> One(m.wireframeMaterial),
     texture |-> One(m.texture # Null)]

\* C27: every geometry, material and texture the module made and no longer
\* refers to has been disposed of: the objects made and not disposed of are
\* the ones its fields hold, and none once dispose() has cleared the fields
C27_AllDisposed == calls = Held(result)

\* After a load and dispose() the module holds nothing, every terrain
\* geometry, material and texture has been disposed of, and the wireframe
\* geometry has not
C27_WireframeGeometryLeft ==
    /\ ~result.scene
    /\ result.currentData = Null
    /\ Held(result) = NoObjects
    /\ calls = [NoObjects EXCEPT !.wireframeGeometry = 1]

(***************************************************************************)
(* Claims about the App                                                    *)
(***************************************************************************)
\* The calls of handleFileSelected a selection can make for the file name fn
CallsNamed(fn) ==
    {handleFiles(FALSE, fileArr) : fileArr \in FileLists}
        \cap {[file |-> f, companionFile |-> w] :
                 f \in {g \in AppFiles : [name |-> g.name] = fn},
                 w \in AppFiles \cup {Null}}

\* What decoding the file of that name gives: a grid or an error
DecodesNamed(fn) ==
    IF fn = [name |-> SampleName] THEN {generateSampleTerrain}
    ELSE {loadRasterFile(Awaited(c)) : c \in CallsNamed(fn)}

\* The App displays the grid r, or nothing and the error r
Shows(app, r) ==
    IF r.status = "grid"
    THEN app.terrainData = TerrainOf(r) /\ app.info = InfoOf(r) /\ app.error = Null
    ELSE app.terrainData = Null /\ app.info = Null /\ app.error = [message |-> r.message]

\* C30: at most one load is in flight; loading is true exactly while one
\* is; and when loading is false after a load, terrainData and info are the
\* result of decoding the file named by fileName, or both are null and
\* error is set because that decode failed
C30_OneLoadShown ==
    /\ Len(calls) <= 1
    /\ result.loading <=> Len(calls) = 1
    /\ (~result.loading /\ result.fileName # Null)
          => \E r \in DecodesNamed(result.fileName) : Shows(result, r)

\* e.xyz, which holds no point, was selected and its load has come back: no
\* load is in flight, and the App shows the error of the decoder and no grid
C30_FailedAfterLoaded ==
    /\ ~result.loading
    /\ calls = <<>>
    /\ result.fileName = [name |-> <<"e", ".", "x", "y", "z">>]
    /\ result.terrainData = Null /\ result.info = Null
    /\ result.error = [message |-> "No valid XYZ points found in file"]

====
